---- MODULE Spec2Model ----
(***************************************************************************)
(* The request / credential layer of libseymour's Reader (src/src/index.ts) *)
(* A JavaScript string is modelled as a sequence of chunks, so that        *)
(* concatenation is \o and startsWith is a test of the first chunk.        *)
(* A token is one chunk; the chunk "" stands for a falsy token             *)
(* (undefined or the empty string: the code only tests truthiness).        *)
(***************************************************************************)
EXTENDS Integers, Sequences, FiniteSets, TLC

VARIABLES config, url, urlAuth, client, autoPostToken,
          tokenAuth, tokenPost, call, nSets, lastPostWrite,
          readerAuth, readerToken, xhr

vars == <<config, url, urlAuth, client, autoPostToken,
          tokenAuth, tokenPost, call, nSets, lastPostWrite,
          readerAuth, readerToken, xhr>>

\* ------------------------------------------------------------------ bounds
\* calls of setAuthToken / setPostToken made by the application during a run
MaxSets == 2
\* chunks of the strings handed to the static ensureStream
MaxChunks == 2
MaxCategories == 2

\* ------------------------------------------------------ environment inputs
Calls == {"c1"}
Omitted == "<omitted>"
NoToken == ""
AuthTokens == {"A1", "A2"}
PostTokens == {"P1", "P2"}
\* bodies of the token endpoint's answers, of the other endpoints' answers
Bodies == {"P1", "P2"}
TargetBodies == {"OK"}
Statuses == {200, 400, 401, 500}
Clock == {1700}
BaseUrl == "https://example.com/api"
Configs ==
  { [url |-> BaseUrl, client |-> Omitted,  autoPostToken |-> Omitted],
    [url |-> BaseUrl, client |-> "my app", autoPostToken |-> "true"],
    [url |-> BaseUrl, client |-> Omitted,  autoPostToken |-> "false"] }

\* ------------------------------------------------------- JavaScript values
\* a value is its type tag and, of the fields s (string), n (number) and
\* a (array of strings), the one its type uses
Undefined == [t |-> "undefined", s |-> <<>>, n |-> 0, a |-> <<>>]
JsStr(s) == [t |-> "string", s |-> s, n |-> 0, a |-> <<>>]
JsNum(n) == [t |-> "number", s |-> <<>>, n |-> n, a |-> <<>>]
JsArr(a) == [t |-> "array", s |-> <<>>, n |-> 0, a |-> a]
\* faulty variant of Truthy: an unset token passes for a token
TruthyAlways(tok) == TRUE
Truthy(tok) == tok # NoToken
\* !v for an argument that is undefined, a string or an array
Falsy(v) == v.t = "undefined" \/ (v.t = "string" /\ v.s = <<>>)
\* faulty variant of AsArray: the elements in reverse order
AsArrayReversed(v) ==
  IF v.t = "array" THEN [i \in 1..Len(v.a) |-> v.a[Len(v.a) + 1 - i]] ELSE <<v.s>>
\* if (!Array.isArray(v)) v = [v]
AsArray(v) == IF v.t = "array" THEN v.a ELSE <<v.s>>
\* String(val) of a defined value
String(val) == IF val.t = "number" THEN <<ToString(val.n)>> ELSE val.s

RECURSIVE SelectSeqOf(_, _)
\* the entries of seq that carry key k
SelectSeqOf(seq, k) ==
  IF seq = <<>> THEN <<>>
  ELSE (IF seq[1][1] = k THEN <<seq[1]>> ELSE <<>>) \o SelectSeqOf(Tail(seq), k)

\* encodeURIComponent, chunk by chunk, on the chunks the model uses
encodeChunk(c) ==
  CASE c = "my app" -> "my%20app"
    [] c = "feed/" -> "feed%2F"
    [] c = "http://x.com/feed" -> "http%3A%2F%2Fx.com%2Ffeed"
    [] c = "user/-/label/" -> "user%2F-%2Flabel%2F"
    [] c = "user/-/state/com.google/" -> "user%2F-%2Fstate%2Fcom.google%2F"
    [] OTHER -> c
encodeURIComponent(s) == [i \in 1..Len(s) |-> encodeChunk(s[i])]

\* application/x-www-form-urlencoded serialisation of one chunk
formChunk(c) ==
  CASE c = "my app" -> "my+app"
    [] c = "feed/" -> "feed%2F"
    [] c = "http://x.com/feed" -> "http%3A%2F%2Fx.com%2Ffeed"
    [] c = "user/-/label/" -> "user%2F-%2Flabel%2F"
    [] c = "user/-/state/com.google/" -> "user%2F-%2Fstate%2Fcom.google%2F"
    [] OTHER -> c
RECURSIVE toString(_)
\* URLSearchParams.prototype.toString
toString(sp) ==
  IF sp = <<>> THEN <<>>
  ELSE <<sp[1][1], "=">> \o [i \in 1..Len(sp[1][2]) |-> formChunk(sp[1][2][i])]
       \o (IF Len(sp) > 1 THEN <<"&">> \o toString(Tail(sp)) ELSE <<>>)

\* ------------------------------------------------------------------ Reader
CLIENT == "libseymour"
PATH_API == "/reader/api/0/"
PATH_AUTH == "/accounts/ClientLogin"
STREAM_TYPES ==
  ("FEED" :> "feed/") @@ ("LABEL" :> "user/-/label/")
    @@ ("STATE" :> "user/-/state/com.google/")
STREAM_PREFIXES == {STREAM_TYPES[k] : k \in DOMAIN STREAM_TYPES}

startsWith(s, p) == Len(s) > 0 /\ s[1] = p
IsStreamId(s) == \E p \in STREAM_PREFIXES : startsWith(s, p)

\* faulty variant of constructor: autoPostToken read with || instead of ??
constructorOrTrue(cfg) ==
  [url |-> <<cfg.url, "/reader/api/0/">>,
   urlAuth |-> <<cfg.url, "/accounts/ClientLogin">>,
   client |-> IF cfg.client = Omitted \/ cfg.client = "" THEN "libseymour" ELSE cfg.client,
   autoPostToken |-> TRUE,
   throws |-> cfg.url = Omitted \/ cfg.url = ""]

\* constructor: whether it throws ('url is required') and, when it does not,
\* the fields of the Reader built from cfg
constructor(cfg) ==
  [url |-> <<cfg.url, PATH_API>>,
   urlAuth |-> <<cfg.url, PATH_AUTH>>,
   client |-> IF cfg.client = Omitted \/ cfg.client = "" THEN CLIENT ELSE cfg.client,
   autoPostToken |-> IF cfg.autoPostToken = Omitted THEN TRUE
                     ELSE cfg.autoPostToken = "true",
   throws |-> cfg.url = Omitted \/ cfg.url = ""]

\* faulty variants of ensureStream: the input passed through as it is, only
\* the role's own prefix recognised, the prefix added without looking
ensureStreamAsIs(input, type) == input
ensureStreamOwnPrefix(input, type) ==
  IF startsWith(input, STREAM_TYPES[type]) THEN input ELSE <<STREAM_TYPES[type]>> \o input
ensureStreamAlways(input, type) == <<STREAM_TYPES[type]>> \o input

ensureStream(input, type) ==
  IF IsStreamId(input) THEN input ELSE <<STREAM_TYPES[type]>> \o input

\* results of a public operation's synchronous part
Throw(msg) == [throws |-> TRUE, message |-> msg]
Call(desc) == [throws |-> FALSE, desc |-> desc]

Obj(entries) == [usp |-> FALSE, entries |-> entries]
USP(entries) == [usp |-> TRUE, entries |-> entries]

getUserInfo ==
  Call([url |-> url \o <<"user-info">>, type |-> "json"])

getFeeds ==
  Call([url |-> url \o <<"subscription/list">>, type |-> "json"])

getTags ==
  Call([url |-> url \o <<"tag/list">>, type |-> "json"])

getUnreadCounts ==
  Call([url |-> url \o <<"unread-count">>, type |-> "json"])

\* faulty variant of getItemsById: only the first ID is asked for
getItemsByIdFirst(itemId) ==
  IF Falsy(itemId) THEN Throw("item ID(s) required")
  ELSE LET ids == AsArray(itemId) IN
       Call([method |-> "POST",
             url |-> url \o <<"stream/items/contents">>,
             params |-> USP([i \in 1..(IF ids = <<>> THEN 0 ELSE 1) |-> <<"i", ids[i]>>]),
             type |-> "json"])

getItemsById(itemId) ==
  IF Falsy(itemId) THEN Throw("item ID(s) required")
  ELSE LET ids == AsArray(itemId) IN
       Call([method |-> "POST",
             url |-> url \o <<"stream/items/contents">>,
             params |-> USP([i \in 1..Len(ids) |-> <<"i", ids[i]>>]),
             type |-> "json"])

renameTag(tag, newTag) ==
  Call([method |-> "POST",
        url |-> url \o <<"rename-tag">>,
        params |-> Obj(<< <<"s", JsStr(ensureStream(tag, "LABEL"))>>,
                          <<"dest", JsStr(ensureStream(newTag, "LABEL"))>> >>),
        type |-> "text"])

setAllRead(streamId, usMax) ==
  IF ~IsStreamId(streamId) THEN Throw("invalid Stream ID")
  ELSE Call([method |-> "POST",
             url |-> url \o <<"mark-all-as-read">>,
             params |-> Obj(<< <<"s", JsStr(streamId)>>,
                               <<"ts", IF usMax.t = "number" THEN usMax ELSE Undefined>> >>),
             type |-> "text"])

\* faulty variant of _editItemTag: only the first tag is looked at
_editItemTagFirstTag(itemId, tag, mode) ==
  IF Falsy(itemId) \/ Falsy(tag) \/ mode = "" THEN Throw("itemId, tag, and mode required")
  ELSE LET ids == AsArray(itemId)
           tags == AsArray(tag)
       IN IF ~IsStreamId(tags[1])
          THEN Throw("tags must be in Stream ID form")
          ELSE Call([method |-> "POST",
                     url |-> url \o <<"edit-tag">>,
                     params |-> USP([i \in 1..Len(ids) |-> <<"i", ids[i]>>]
                                    \o [i \in 1..Len(tags) |->
                                          <<IF mode = "add" THEN "a" ELSE "r", tags[i]>>]),
                     type |-> "text"])

_editItemTag(itemId, tag, mode) ==
  IF Falsy(itemId) \/ Falsy(tag) \/ mode = "" THEN Throw("itemId, tag, and mode required")
  ELSE LET ids == AsArray(itemId)
           tags == AsArray(tag)
       IN IF \E i \in 1..Len(tags) : ~IsStreamId(tags[i])
          THEN Throw("tags must be in Stream ID form")
          ELSE Call([method |-> "POST",
                     url |-> url \o <<"edit-tag">>,
                     params |-> USP([i \in 1..Len(ids) |-> <<"i", ids[i]>>]
                                    \o [i \in 1..Len(tags) |->
                                          <<IF mode = "add" THEN "a" ELSE "r", tags[i]>>]),
                     type |-> "text"])

addItemTag(itemId, tag) == _editItemTag(itemId, tag, "add")
removeItemTag(itemId, tag) == _editItemTag(itemId, tag, "remove")

\* an INewFeed object, an IEditFeed object and an array of IEditFeed objects
NewFeed(feedUrl, title, tag) ==
  [t |-> "object", url |-> feedUrl, title |-> title, tag |-> tag]
EditFeed(id, title) == [t |-> "object", id |-> id, title |-> title]
EditFeeds(items) == [t |-> "objects", items |-> items]

_editFeed(params) ==
  Call([method |-> "POST",
        url |-> url \o <<"subscription/edit">>,
        params |-> params,
        type |-> "text"])

addFeed(feed) ==
  IF feed.t \notin {"string", "object"} THEN Throw("url or feed object required")
  ELSE LET feedUrl == IF feed.t = "string" THEN feed ELSE feed.url IN
       IF Falsy(feedUrl) THEN Throw("url required")
       ELSE _editFeed(USP(
              << <<"ac", <<"subscribe">> >>, <<"s", ensureStream(feedUrl.s, "FEED")>> >>
              \o (IF feed.t = "object" /\ ~Falsy(feed.title)
                  THEN << <<"t", feed.title.s>> >> ELSE <<>>)
              \o (IF feed.t = "object" /\ ~Falsy(feed.tag)
                  THEN << <<"a", ensureStream(feed.tag.s, "LABEL")>> >> ELSE <<>>)))

removeFeed(feed) ==
  IF Falsy(feed) THEN Throw("no feed(s) specified")
  ELSE LET ids == AsArray(feed) IN
       _editFeed(USP(<< <<"ac", <<"unsubscribe">> >> >>
                     \o [i \in 1..Len(ids) |-> <<"s", ensureStream(ids[i], "FEED")>>]))

RECURSIVE RenameEntries(_)
\* the pairs appended by renameFeed's forEach: s, then t (f.title ?? '')
RenameEntries(items) ==
  IF items = <<>> THEN <<>>
  ELSE << <<"s", ensureStream(items[1].id.s, "FEED")>>,
          <<"t", IF items[1].title.t = "undefined" THEN <<>> ELSE items[1].title.s>> >>
       \o RenameEntries(Tail(items))

renameFeed(feed) ==
  IF feed.t = "undefined" THEN Throw("feed object(s) required")
  ELSE LET items == IF feed.t = "objects" THEN feed.items ELSE <<feed>> IN
       _editFeed(USP(<< <<"ac", <<"edit">> >> >> \o RenameEntries(items)))

_editFeedTag(feed, tag, mode) ==
  IF Falsy(feed) THEN Throw("no feed(s) specified")
  ELSE LET ids == AsArray(feed) IN
       _editFeed(USP(<< <<"ac", <<"edit">> >> >>
                     \o [i \in 1..Len(ids) |-> <<"s", ensureStream(ids[i], "FEED")>>]
                     \o (IF mode = "add"
                         THEN << <<"a", ensureStream(tag, "LABEL")>> >> ELSE <<>>)
                     \o (IF mode = "remove"
                         THEN << <<"r", ensureStream(tag, "LABEL")>> >> ELSE <<>>)))

addFeedTag(feed, tag) == _editFeedTag(feed, tag, "add")
removeFeedTag(feed, tag) == _editFeedTag(feed, tag, "remove")

\* an IGetFeedItemOpts object; an absent option is Undefined
Opts(continuation, num, sort, exclude, sMin, sMax) ==
  [continuation |-> continuation, num |-> num, sort |-> sort,
   exclude |-> exclude, sMin |-> sMin, sMax |-> sMax]
NoOpts == Opts(Undefined, Undefined, Undefined, Undefined, Undefined, Undefined)

\* faulty variant of ItemParams: ascending order unless desc is asked for
ItemParamsAscending(opts) ==
  << <<"c", IF Falsy(opts.continuation) THEN Undefined ELSE opts.continuation>>,
     <<"n", IF opts.num.t = "number" THEN opts.num ELSE JsNum(50)>>,
     <<"r", IF opts.sort = JsStr(<<"desc">>) THEN JsStr(<<"d">>) ELSE JsStr(<<"o">>)>>,
     <<"xt", IF Falsy(opts.exclude) THEN Undefined ELSE opts.exclude>>,
     <<"ot", IF opts.sMin.t = "number" THEN opts.sMin ELSE Undefined>>,
     <<"nt", IF opts.sMax.t = "number" THEN opts.sMax ELSE Undefined>> >>

\* the entries c, n, r, xt, ot, nt common to getItems and getItemIds
ItemParams(opts) ==
  << <<"c", IF Falsy(opts.continuation) THEN Undefined ELSE opts.continuation>>,
     <<"n", IF opts.num.t = "number" THEN opts.num ELSE JsNum(50)>>,
     <<"r", IF opts.sort = JsStr(<<"asc">>) THEN JsStr(<<"o">>) ELSE JsStr(<<"d">>)>>,
     <<"xt", IF Falsy(opts.exclude) THEN Undefined ELSE opts.exclude>>,
     <<"ot", IF opts.sMin.t = "number" THEN opts.sMin ELSE Undefined>>,
     <<"nt", IF opts.sMax.t = "number" THEN opts.sMax ELSE Undefined>> >>

getItems(streamId, opts) ==
  IF Falsy(streamId) THEN Throw("Stream ID required")
  ELSE Call([url |-> url \o <<"stream/contents/">>
                         \o encodeURIComponent(ensureStream(streamId.s, "FEED")),
             params |-> Obj(ItemParams(opts)),
             type |-> "json"])

getItemIds(streamId, opts) ==
  IF Falsy(streamId) THEN Throw("Stream ID required")
  ELSE Call([url |-> url \o <<"stream/items/ids">>,
             params |-> Obj(<< <<"s", JsStr(ensureStream(streamId.s, "FEED"))>> >>
                            \o ItemParams(opts)),
             type |-> "json"])

\* the public operations a caller may start, with their arguments
Operations ==
  { [name |-> "getUserInfo", args |-> <<>>],
    [name |-> "renameTag",
     args |-> <<JsStr(<<"old">>), JsStr(<<"user/-/label/", "new">>)>>],
    [name |-> "setAllRead",
     args |-> <<JsStr(<<"feed/", "http://x.com/feed">>), Undefined>>],
    [name |-> "addItemTag",
     args |-> <<JsArr(<< <<"item1">>, <<"item2">> >>),
                JsStr(<<"user/-/state/com.google/", "read">>)>>],
    [name |-> "addItemTag",
     args |-> <<JsStr(<<"item1">>),
                JsArr(<< <<"user/-/state/com.google/", "read">>, <<"read">> >>)>>] }

Invoke(op) ==
  CASE op.name = "getUserInfo" -> getUserInfo
    [] op.name = "renameTag" -> renameTag(op.args[1].s, op.args[2].s)
    [] op.name = "setAllRead" -> setAllRead(op.args[1].s, op.args[2])
    [] op.name = "addItemTag" -> addItemTag(op.args[1], op.args[2])
    [] op.name = "removeItemTag" -> removeItemTag(op.args[1], op.args[2])
    [] op.name = "addFeed" -> addFeed(op.args[1])
    [] op.name = "removeFeed" -> removeFeed(op.args[1])
    [] op.name = "renameFeed" -> renameFeed(op.args[1])
    [] op.name = "addFeedTag" -> addFeedTag(op.args[1], op.args[2].s)
    [] op.name = "removeFeedTag" -> removeFeedTag(op.args[1], op.args[2].s)
    [] op.name = "getItems" -> getItems(op.args[1], op.args[2])
    [] op.name = "getItemIds" -> getItemIds(op.args[1], op.args[2])
    [] op.name = "getItemsById" -> getItemsById(op.args[1])
    [] op.name = "getFeeds" -> getFeeds
    [] op.name = "getTags" -> getTags
    [] op.name = "getUnreadCounts" -> getUnreadCounts

\* --------------------------------------------------------- request engine
NoHeaders == [Authorization |-> <<>>]
GoogleLogin(tok) == <<"GoogleLogin auth=", tok>>
NetworkFailure == 0
Ok(status) == status \in 200..299

\* the destructured argument of req, defaults applied
Destructure(arg) ==
  [isRetry |-> IF "isRetry" \in DOMAIN arg THEN arg.isRetry ELSE FALSE,
   method  |-> IF "method" \in DOMAIN arg THEN arg.method ELSE "GET",
   headers |-> IF "headers" \in DOMAIN arg THEN arg.headers ELSE NoHeaders,
   params  |-> IF "params" \in DOMAIN arg THEN arg.params ELSE Obj(<<>>),
   url     |-> arg.url,
   type    |-> arg.type]

RECURSIVE FromEntriesStrings(_)
\* faulty variant of FromEntries: only the string values are kept
FromEntriesStrings(entries) ==
  IF entries = <<>> THEN <<>>
  ELSE (IF entries[1][2].t = "string"
        THEN << <<entries[1][1], String(entries[1][2])>> >> ELSE <<>>)
       \o FromEntriesStrings(Tail(entries))

\* Object.entries(params).filter(val !== undefined).map([key, String(val)])
RECURSIVE FromEntries(_)
FromEntries(entries) ==
  IF entries = <<>> THEN <<>>
  ELSE (IF entries[1][2].t # "undefined"
        THEN << <<entries[1][1], String(entries[1][2])>> >> ELSE <<>>)
       \o FromEntries(Tail(entries))

\* req up to and including its fetch: the request handed to fetch and the
\* function's locals as they stand while it awaits the response
req(arg, noAuth, now) ==
  LET d == Destructure(arg)
      headers == IF Truthy(tokenAuth) /\ ~noAuth
                 THEN [d.headers EXCEPT !.Authorization = GoogleLogin(tokenAuth)]
                 ELSE d.headers
      searchParams == IF d.params.usp THEN d.params.entries
                      ELSE FromEntries(d.params.entries)
      sent == IF d.method = "GET"
              THEN searchParams \o << <<"ck", <<ToString(now)>> >>,
                                      <<"output", <<"json">> >>,
                                      <<"client", <<client>> >> >>
              ELSE IF d.method = "POST" /\ Truthy(tokenPost)
                   THEN Append(searchParams, <<"T", <<tokenPost>> >>)
                   ELSE searchParams
      target == IF d.method = "GET" THEN d.url \o <<"?">> \o toString(sent)
                ELSE IF d.method = "POST"
                     THEN d.url \o <<"?client=">> \o encodeURIComponent(<<client>>)
                     ELSE d.url
  IN [fetch  |-> [method |-> d.method, url |-> target, headers |-> headers,
                  hasBody |-> d.method = "POST",
                  body |-> IF d.method = "POST" THEN sent ELSE <<>>],
      locals |-> [d EXCEPT !.headers = headers,
                           !.url = target,
                           !.params = IF d.params.usp THEN USP(sent) ELSE d.params]]

\* faulty variants of ShouldRefresh: 400 forgotten, the retry flag forgotten, the
\* method forgotten, the retry flag kept on the client instead of the call
ShouldRefresh401Only(d, status) ==
  d.method = "POST" /\ autoPostToken /\ ~d.isRetry /\ status = 401
ShouldRefreshAgain(d, status) ==
  d.method = "POST" /\ autoPostToken /\ status \in {400, 401}
ShouldRefreshAnyMethod(d, status) ==
  autoPostToken /\ ~d.isRetry /\ status \in {400, 401}
ShouldRefreshSharedFlag(d, status) ==
  /\ d.method = "POST" /\ autoPostToken /\ status \in {400, 401}
  /\ \A c \in DOMAIN call : ~call[c].d.isRetry

\* the condition under which a failed response is answered by a refresh
ShouldRefresh(d, status) ==
  d.method = "POST" /\ autoPostToken /\ ~d.isRetry /\ status \in {400, 401}

\* the request getPostToken hands to fetch
getPostTokenFetch ==
  [method |-> "GET", url |-> url \o <<"token">>,
   headers |-> [Authorization |-> GoogleLogin(tokenAuth)],
   hasBody |-> FALSE, body |-> <<>>]

\* what a caller's promise settles to
Pending == [kind |-> "pending", status |-> 0, value |-> <<>>]
Resolved(type, body) == [kind |-> "value", status |-> 0, value |-> <<type, body>>]
ApiError(message, status) == [kind |-> "ApiError", status |-> status, value |-> <<message>>]
Error(message) == [kind |-> "Error", status |-> 0, value |-> <<message>>]
TransportError == [kind |-> "TransportError", status |-> 0, value |-> <<>>]
TypeError == [kind |-> "TypeError", status |-> 0, value |-> <<>>]

\* ---- the JSON bodies the operations look into
\* res.json() of a body: the one property the operations read and the list
\* it holds; any other body decodes to a value without that property
Item(id, title, crawlTimeMsec, timestampUsec) ==
  [id |-> id, title |-> title, crawlTimeMsec |-> crawlTimeMsec,
   timestampUsec |-> timestampUsec]
UnreadCount(id, count, newestItemTimestampUsec) ==
  [id |-> id, count |-> count, newestItemTimestampUsec |-> newestItemTimestampUsec]
Json(prop, list) == [prop |-> prop, list |-> list]
json(body) ==
  CASE body = "ITEMS" ->
         Json("items",
              << Item("item1", "First", JsStr(<<"1", "7", "0", "0">>),
                      JsStr(<<"1", "7", "0", "0", "0", "0", "1">>)),
                 Item("item2", "Second", JsStr(<<"0", "4", "2">>), JsStr(<<"0">>)) >>)
    [] body = "NOITEMS" -> Json("items", <<>>)
    [] body = "UNREAD" ->
         Json("unreadcounts",
              << UnreadCount("feed/http://x.com/feed", JsNum(3),
                             JsStr(<<"1", "7", "0", "1">>)),
                 UnreadCount("user/-/label/new", JsNum(0), JsStr(<<"0", "9", "9">>)) >>)
    [] body = "REFS" -> Json("itemRefs", << [id |-> "item2"], [id |-> "item1"] >>)
    [] body = "FEEDS" -> Json("subscriptions", << [id |-> "feed/http://x.com/feed"] >>)
    [] body = "TAGS" -> Json("tags", << [id |-> "user/-/label/new"] >>)
    [] OTHER -> Json("", <<>>)

NaN == [t |-> "number", s |-> <<"NaN">>, n |-> 0, a |-> <<>>]
DigitOf ==
  [c \in {"0", "1", "2", "3", "4", "5", "6", "7", "8", "9"} |->
     CASE c = "0" -> 0 [] c = "1" -> 1 [] c = "2" -> 2 [] c = "3" -> 3
       [] c = "4" -> 4 [] c = "5" -> 5 [] c = "6" -> 6 [] c = "7" -> 7
       [] c = "8" -> 8 [] c = "9" -> 9]
RECURSIVE DigitsValue(_, _)
\* the value of the leading decimal digits of s, acc being the value so far
DigitsValue(s, acc) ==
  IF s = <<>> \/ s[1] \notin DOMAIN DigitOf THEN acc
  ELSE DigitsValue(Tail(s), acc * 10 + DigitOf[s[1]])
RECURSIVE TrimStart(_)
TrimStart(s) == IF s # <<>> /\ s[1] = " " THEN TrimStart(Tail(s)) ELSE s

\* faulty variant of parseInt: the value is left as the server sent it
parseIntAsIs(v) == v

\* parseInt(v, 10) of a string of characters, an integer or undefined
parseInt(v) ==
  IF v.t = "number" THEN v
  ELSE IF v.t # "string" THEN NaN
  ELSE LET trimmed == TrimStart(v.s)
           signed == trimmed # <<>> /\ trimmed[1] \in {"-", "+"}
           digits == IF signed THEN Tail(trimmed) ELSE trimmed
       IN IF digits = <<>> \/ digits[1] \notin DOMAIN DigitOf THEN NaN
          ELSE JsNum((IF signed /\ trimmed[1] = "-" THEN -1 ELSE 1)
                     * DigitsValue(digits, 0))

\* what an operation makes of the decoded body of a successful response: the
\* code after `await this.req(...)`
Finish(op, type, body) ==
  LET res == json(body) IN
  CASE op \in {"getItems", "getItemsById"} ->
         IF res.prop # "items" THEN TypeError
         ELSE Resolved(type, Json("items",
                [i \in 1..Len(res.list) |->
                   [res.list[i] EXCEPT
                      !.crawlTimeMsec = parseInt(res.list[i].crawlTimeMsec),
                      !.timestampUsec = parseInt(res.list[i].timestampUsec)]]))
    [] op = "getUnreadCounts" ->
         IF res.prop # "unreadcounts" THEN TypeError
         ELSE Resolved(type,
                [i \in 1..Len(res.list) |->
                   [res.list[i] EXCEPT
                      !.newestItemTimestampUsec =
                         parseInt(res.list[i].newestItemTimestampUsec)]])
    [] op = "getItemIds" ->
         IF res.prop # "itemRefs" THEN TypeError
         ELSE Resolved(type, [i \in 1..Len(res.list) |-> res.list[i].id])
    [] op = "getFeeds" ->
         IF res.prop # "subscriptions" THEN Resolved(type, Undefined)
         ELSE Resolved(type, res.list)
    [] op = "getTags" ->
         IF res.prop # "tags" THEN Resolved(type, Undefined)
         ELSE Resolved(type, res.list)
    [] OTHER -> Resolved(type, body)

\* a request as dispatched, with the credentials held at that moment
Sent(request, now) ==
  [req |-> request, authAt |-> tokenAuth, postAt |-> tokenPost,
   writeAt |-> lastPostWrite, nowAt |-> now]

\* a response as handled: its status, the body if the code read it, and the
\* credentials held before (auth, post) and after (postAfter) its handling
Rcvd(status, body, postAfter) ==
  [status |-> status, body |-> body, auth |-> tokenAuth, post |-> tokenPost,
   postAfter |-> postAfter]

NoLocals == Destructure([url |-> <<>>, type |-> "raw"])
Idle == [pc |-> "idle", op |-> "", args |-> <<>>, d |-> NoLocals, sent |-> <<>>,
         rcvd |-> <<>>, outcome |-> Pending]

\* the callback library of main.ts: no makeRequest under way, and the
\* library not in use (nothing stored under Auth, no token)
NoRequest ==
  [pc |-> "idle",
   obj |-> [method |-> "", url |-> <<>>, parameters |-> <<>>, tried |-> FALSE],
   sent |-> <<>>, rcvd |-> <<>>, called |-> "none"]
Unloaded == readerAuth = NoToken /\ readerToken = NoToken /\ xhr = NoRequest

Init ==
  /\ config \in Configs
  /\ url = constructor(config).url
  /\ urlAuth = constructor(config).urlAuth
  /\ client = constructor(config).client
  /\ autoPostToken = constructor(config).autoPostToken
  /\ tokenAuth = NoToken
  /\ tokenPost = NoToken
  /\ lastPostWrite = NoToken
  /\ nSets = 0
  /\ Unloaded
  /\ call = [c \in Calls |-> Idle]

Frame == UNCHANGED <<config, url, urlAuth, client, autoPostToken,
                     readerAuth, readerToken, xhr>>

\* a public operation is called: its synchronous part up to the first fetch
Start(c, op, now) ==
  /\ call[c].pc \in {"idle", "done"}
  /\ LET r == Invoke(op) IN
       IF r.throws
       THEN call' = [call EXCEPT ![c] =
              [Idle EXCEPT !.pc = "done", !.op = op.name, !.args = op.args,
                           !.outcome = Error(r.message)]]
       ELSE LET q == req(r.desc, FALSE, now) IN
            call' = [call EXCEPT ![c] =
              [Idle EXCEPT !.pc = "fetch", !.op = op.name, !.args = op.args,
                           !.d = q.locals, !.sent = <<Sent(q.fetch, now)>>]]
  /\ UNCHANGED <<tokenAuth, tokenPost, lastPostWrite, nSets>>
  /\ Frame

\* the fetch of req settles, lines 643-665, and on success the operation that
\* awaited req runs to its end
Response(c, status, body) ==
  LET k == call[c] IN
  /\ k.pc = "fetch"
  /\ IF status = NetworkFailure
     THEN call' = [call EXCEPT ![c].pc = "done",
                               ![c].rcvd = Append(@, Rcvd(status, "", tokenPost)),
                               ![c].outcome = TransportError]
     ELSE IF Ok(status)
     THEN call' = [call EXCEPT ![c].pc = "done",
                               ![c].rcvd = Append(@, Rcvd(status, body, tokenPost)),
                               ![c].outcome = Finish(k.op, k.d.type, body)]
     ELSE IF ShouldRefresh(k.d, status)
     THEN IF ~Truthy(tokenAuth)
          THEN call' = [call EXCEPT ![c].pc = "done",
                                    ![c].rcvd = Append(@, Rcvd(status, "", tokenPost)),
                                    ![c].outcome = Error("no auth token")]
          ELSE call' = [call EXCEPT ![c].pc = "token",
                                    ![c].rcvd = Append(@, Rcvd(status, "", tokenPost)),
                                    ![c].sent = Append(@, Sent(getPostTokenFetch, 0))]
     ELSE call' = [call EXCEPT ![c].pc = "done",
                               ![c].rcvd = Append(@, Rcvd(status, body, tokenPost)),
                               ![c].outcome = ApiError(body, status)]
  /\ UNCHANGED <<tokenAuth, tokenPost, lastPostWrite, nSets>>
  /\ Frame

\* faulty variants of PostTokenAfter: the body stored before the status is looked at,
\* the body never stored
PostTokenStoredFirst(status, body) == IF status # NetworkFailure THEN body ELSE tokenPost
PostTokenNotStored(status, body) == tokenPost
\* faulty variant of PostTokenAfter: the body trimmed before it is stored
PostTokenTrimmed(status, body) ==
  IF Ok(status) THEN (IF body = "P2\n" THEN "P2" ELSE body) ELSE tokenPost

\* faulty variant of PostTokenAfter: whatever arrived is stored
PostTokenStoredAlways(status, body) == body

\* the post token held once getPostToken has handled its response
PostTokenAfter(status, body) == IF Ok(status) THEN body ELSE tokenPost

\* the fetch of getPostToken settles: lines 228-232; the value goes to the
\* application when it made the call, to req (line 651) otherwise
TokenResponse(c, status, body) ==
  /\ call[c].pc = "token"
  /\ tokenPost' = PostTokenAfter(status, body)
  /\ lastPostWrite' = IF Ok(status) THEN body ELSE lastPostWrite
  /\ IF status = NetworkFailure
     THEN call' = [call EXCEPT ![c].pc = "done",
                               ![c].rcvd = Append(@, Rcvd(status, "", tokenPost')),
                               ![c].outcome = TransportError]
     ELSE IF ~Ok(status)
     THEN call' = [call EXCEPT ![c].pc = "done",
                               ![c].rcvd = Append(@, Rcvd(status, body, tokenPost')),
                               ![c].outcome = ApiError(body, status)]
     ELSE IF call[c].op = "getPostToken"
     THEN call' = [call EXCEPT ![c].pc = "done",
                               ![c].rcvd = Append(@, Rcvd(status, body, tokenPost')),
                               ![c].outcome = Resolved("text", body)]
     ELSE call' = [call EXCEPT ![c].pc = "stored",
                               ![c].rcvd = Append(@, Rcvd(status, body, tokenPost'))]
  /\ UNCHANGED <<tokenAuth, nSets>>
  /\ Frame

\* the descriptor req passes to itself for the retry: lines 654-661
RetryArg(d) ==
  [isRetry |-> TRUE, method |-> d.method, headers |-> d.headers,
   params |-> d.params, url |-> d.url, type |-> d.type]

\* req resumes after await this.getPostToken(): lines 653-661
Retry(c, now) ==
  /\ call[c].pc = "stored"
  /\ LET q == req(RetryArg(call[c].d), FALSE, now)
     IN call' = [call EXCEPT ![c].pc = "fetch", ![c].d = q.locals,
                             ![c].sent = Append(@, Sent(q.fetch, now))]
  /\ UNCHANGED <<tokenAuth, tokenPost, lastPostWrite, nSets>>
  /\ Frame

setAuthToken(token) ==
  /\ nSets < MaxSets
  /\ nSets' = nSets + 1
  /\ tokenAuth' = token
  /\ UNCHANGED <<tokenPost, lastPostWrite, call>>
  /\ Frame

setPostToken(token) ==
  /\ nSets < MaxSets
  /\ nSets' = nSets + 1
  /\ tokenPost' = token
  /\ lastPostWrite' = token
  /\ UNCHANGED <<tokenAuth, call>>
  /\ Frame

Next ==
  \/ \E c \in Calls, op \in Operations, now \in Clock : Start(c, op, now)
  \/ \E c \in Calls, status \in Statuses \cup {NetworkFailure}, body \in TargetBodies :
       Response(c, status, body)
  \/ \E c \in Calls, status \in Statuses \cup {NetworkFailure}, body \in Bodies :
       TokenResponse(c, status, body)
  \/ \E c \in Calls, now \in Clock : Retry(c, now)
  \/ \E token \in AuthTokens \cup {NoToken} : setAuthToken(token)
  \/ \E token \in PostTokens \cup {NoToken} : setPostToken(token)

Spec == Init /\ [][Next]_vars

\* ------------------------------------------------- two calls in flight
\* The client after the application has set its credentials; two public
\* POST operations are then called without waiting for one another.
Concurrent == {"c1", "c2"}
PostOperations == {op \in Operations : op.name \in {"renameTag", "addItemTag"}}

InitConc ==
  /\ config \in Configs
  /\ url = constructor(config).url
  /\ urlAuth = constructor(config).urlAuth
  /\ client = constructor(config).client
  /\ autoPostToken = constructor(config).autoPostToken
  /\ tokenAuth \in {"A1", NoToken}
  /\ tokenPost \in {"P1", NoToken}
  /\ lastPostWrite = tokenPost
  /\ nSets = 0
  /\ Unloaded
  /\ call = [c \in Concurrent |-> Idle]

NextConc ==
  \/ \E c \in Concurrent, op \in PostOperations, now \in Clock :
       call[c].pc = "idle" /\ Start(c, op, now)
  \/ \E c \in Concurrent, status \in Statuses \cup {NetworkFailure}, body \in TargetBodies :
       Response(c, status, body)
  \/ \E c \in Concurrent, status \in Statuses \cup {NetworkFailure}, body \in Bodies :
       TokenResponse(c, status, body)
  \/ \E c \in Concurrent, now \in Clock : Retry(c, now)

SpecConc == InitConc /\ [][NextConc]_vars

\* the default client holding an auth token and no post token
InitFair ==
  /\ InitConc
  /\ config.client = Omitted /\ config.autoPostToken = Omitted
  /\ tokenAuth = "A1"
  /\ tokenPost = NoToken

\* a continuation of call c runs: a response or a transport failure arrives
\* for the request it awaits, or it resumes after the refresh
Step(c) ==
  \/ \E status \in Statuses \cup {NetworkFailure}, body \in TargetBodies : Response(c, status, body)
  \/ \E status \in Statuses \cup {NetworkFailure}, body \in Bodies : TokenResponse(c, status, body)
  \/ \E now \in Clock : Retry(c, now)

\* fairness: every dispatched request is eventually answered (or fails in
\* transport) and every resumed continuation eventually runs
FairConc == InitFair /\ [][NextConc]_vars /\ \A c \in Concurrent : WF_vars(Step(c))

\* ------------------------------------------- every parameter builder
\* The client holding an auth token; the public operations are called one
\* after another with the arguments below, and the static ensureStream is
\* applied to the strings of at most MaxChunks chunks.
FeedUrl == <<"http://x.com/feed">>
FeedId == <<"feed/", "http://x.com/feed">>
LabelName == <<"new">>
LabelId == <<"user/-/label/", "new">>
ReadId == <<"user/-/state/com.google/", "read">>
EmptyString == <<>>

StreamChunks == STREAM_PREFIXES \cup {"http://x.com/feed", "read"}
RECURSIVE Strings(_)
\* the strings of exactly n chunks
Strings(n) ==
  IF n = 0 THEN {<<>>}
  ELSE {Append(str, ch) : str \in Strings(n - 1), ch \in StreamChunks}
StreamInputs == UNION {Strings(n) : n \in 0..MaxChunks}

FeedArgs == {JsStr(FeedUrl), JsStr(FeedId), JsArr(<<FeedUrl, FeedId>>)}
OptsArgs ==
  { NoOpts,
    Opts(JsStr(<<"page2">>), JsNum(10), JsStr(<<"asc">>), JsStr(<<"read">>),
         JsNum(1), JsNum(2)),
    Opts(Undefined, JsNum(10), Undefined, JsStr(ReadId), Undefined, Undefined),
    Opts(JsStr(EmptyString), Undefined, JsStr(<<"desc">>), JsStr(EmptyString),
         Undefined, JsNum(2)) }

FeedOperations ==
  {[name |-> "addFeed", args |-> <<feed>>] :
     feed \in {JsStr(FeedUrl), JsStr(FeedId), JsStr(EmptyString), Undefined}}
  \cup {[name |-> "addFeed", args |-> <<NewFeed(feedUrl, title, tag)>>] :
          feedUrl \in {JsStr(FeedUrl), Undefined},
          title \in {JsStr(<<"Title">>), Undefined},
          tag \in {JsStr(LabelName), JsStr(LabelId), Undefined}}
  \cup {[name |-> "removeFeed", args |-> <<feed>>] : feed \in FeedArgs \cup {Undefined}}
  \cup {[name |-> "renameFeed", args |-> <<feed>>] :
          feed \in {EditFeed(JsStr(FeedUrl), JsStr(<<"Title">>)),
                    EditFeed(JsStr(FeedId), Undefined),
                    EditFeeds(<<EditFeed(JsStr(FeedId), JsStr(<<"Title">>)),
                                EditFeed(JsStr(FeedUrl), JsStr(EmptyString))>>),
                    Undefined}}
  \cup {[name |-> mode, args |-> <<feed, JsStr(tag)>>] :
          mode \in {"addFeedTag", "removeFeedTag"},
          feed \in FeedArgs \cup {JsStr(EmptyString)}, tag \in {LabelName, LabelId}}

ItemOperations ==
  {[name |-> mode, args |-> <<streamId, opts>>] :
     mode \in {"getItems", "getItemIds"},
     streamId \in {JsStr(FeedUrl), JsStr(FeedId), JsStr(LabelId), JsStr(EmptyString)},
     opts \in OptsArgs}
  \cup {[name |-> "removeItemTag", args |-> op.args] :
          op \in {o \in Operations : o.name = "addItemTag"}}
  \cup {[name |-> mode, args |-> <<JsStr(EmptyString), JsStr(ReadId)>>] :
          mode \in {"addItemTag", "removeItemTag"}}
  \cup {[name |-> "setAllRead", args |-> <<streamId, usMax>>] :
          streamId \in {JsStr(LabelId), JsStr(LabelName)},
          usMax \in {Undefined, JsNum(1700000)}}
  \cup {[name |-> "renameTag", args |-> <<JsStr(LabelId), JsStr(<<"newer">>)>>]}

AllOperations == Operations \cup FeedOperations \cup ItemOperations

\* the getters without arguments, getItemsById, and the bulk operations on
\* several IDs, on several tags and on empty lists
Item1 == <<"item1">>
Item2 == <<"item2">>
StarredId == <<"user/-/state/com.google/", "starred">>
NoElements == JsArr(<<>>)
BulkOperations ==
  {[name |-> getter, args |-> <<>>] : getter \in {"getFeeds", "getTags", "getUnreadCounts"}}
  \cup {[name |-> "getItemsById", args |-> <<itemId>>] :
          itemId \in {JsStr(Item1), JsArr(<<Item2, Item1>>), NoElements, Undefined}}
  \cup {[name |-> mode, args |-> <<itemId, tag>>] :
          mode \in {"addItemTag", "removeItemTag"},
          itemId \in {JsArr(<<Item2, Item1>>), NoElements},
          tag \in {JsArr(<<StarredId, ReadId>>), NoElements}}
  \cup {[name |-> "removeFeed", args |-> <<feed>>] :
          feed \in {JsArr(<<FeedId, FeedUrl>>), NoElements}}
  \cup {[name |-> mode, args |-> <<feed, JsStr(LabelName)>>] :
          mode \in {"addFeedTag", "removeFeedTag"},
          feed \in {JsArr(<<FeedId, FeedUrl>>), NoElements}}

\* the bodies a server answers an operation with
JsonBodies(op) ==
  CASE op \in {"getItems", "getItemsById"} -> {"ITEMS", "NOITEMS"}
    [] op = "getUnreadCounts" -> {"UNREAD"}
    [] op = "getItemIds" -> {"REFS"}
    [] op = "getFeeds" -> {"FEEDS"}
    [] op = "getTags" -> {"TAGS"}
    [] OTHER -> TargetBodies

\* what a synchronous call returns
Returned(value) == [kind |-> "return", status |-> 0, value |-> value]

InitOps ==
  /\ config \in Configs
  /\ url = constructor(config).url
  /\ urlAuth = constructor(config).urlAuth
  /\ client = constructor(config).client
  /\ autoPostToken = constructor(config).autoPostToken
  /\ tokenAuth = "A1"
  /\ tokenPost \in {"P1", NoToken}
  /\ lastPostWrite = tokenPost
  /\ nSets = 0
  /\ Unloaded
  /\ call = [c \in Calls |-> Idle]

\* Reader.ensureStream(input, type) is called
EnsureStreamCall(c, input, type) ==
  /\ call[c].pc \in {"idle", "done"}
  /\ call' = [call EXCEPT ![c] =
       [Idle EXCEPT !.pc = "done", !.op = "ensureStream",
                    !.args = <<JsStr(input), JsStr(<<type>>)>>,
                    !.outcome = Returned(ensureStream(input, type))]]
  /\ UNCHANGED <<tokenAuth, tokenPost, lastPostWrite, nSets>>
  /\ Frame

\* Reader.ensureStream is called on the value its last call returned
EnsureStreamAgain(c, type) ==
  /\ call[c].op = "ensureStream"
  /\ call[c].outcome.kind = "return"
  /\ EnsureStreamCall(c, call[c].outcome.value, type)

\* a run calls the instance's operations or the static ensureStream, which
\* touches no state of the instance
NextOps ==
  \/ \E c \in Calls, op \in AllOperations \cup BulkOperations, now \in Clock :
       call[c].op # "ensureStream" /\ Start(c, op, now)
  \/ \E c \in Calls, status \in Statuses \cup {NetworkFailure} :
       \E body \in JsonBodies(call[c].op) : Response(c, status, body)
  \/ \E c \in Calls, status \in Statuses \cup {NetworkFailure}, body \in Bodies :
       TokenResponse(c, status, body)
  \/ \E c \in Calls, now \in Clock : Retry(c, now)
  \/ \E c \in Calls, input \in StreamInputs, type \in DOMAIN STREAM_TYPES :
       call[c].op \in {"", "ensureStream"} /\ EnsureStreamCall(c, input, type)
  \/ \E c \in Calls, type \in DOMAIN STREAM_TYPES : EnsureStreamAgain(c, type)

SpecOps == InitOps /\ [][NextOps]_vars

\* -------------------------------------------------------------- getters
\* The client holding an auth token and possibly a post token; the
\* operations that read with a GET are called one after another, at
\* different times.
Times == Clock \cup {1701}
Getters == {"getUserInfo", "getFeeds", "getTags", "getUnreadCounts", "getItems",
            "getItemIds"}
ReadOperations == {op \in AllOperations \cup BulkOperations : op.name \in Getters}

NextGet ==
  \/ \E c \in Calls, op \in ReadOperations, now \in Times : Start(c, op, now)
  \/ \E c \in Calls, status \in Statuses \cup {NetworkFailure} :
       \E body \in JsonBodies(call[c].op) : Response(c, status, body)

SpecGet == InitOps /\ [][NextGet]_vars

\* ------------------------------------------------ credential exchanges
\* String.prototype.split('\n') on a string whose newlines are chunks of
\* their own: the lines, each a string
RECURSIVE Lines(_, _)
Lines(str, line) ==
  IF str = <<>> THEN <<line>>
  ELSE IF str[1] = "\n" THEN <<line>> \o Lines(Tail(str), <<>>)
  ELSE Lines(Tail(str), Append(line, str[1]))
split(str) == Lines(str, <<>>)

RECURSIVE replace(_, _)
\* String.prototype.replace(pattern, ''): the first occurrence removed
replace(str, pattern) ==
  IF str = <<>> THEN <<>>
  ELSE IF str[1] = pattern THEN Tail(str)
  ELSE <<str[1]>> \o replace(Tail(str), pattern)

RECURSIVE Join(_)
\* the chunks of a string as the one chunk a token is
Join(str) == IF str = <<>> THEN "" ELSE str[1] \o Join(Tail(str))

\* answers of the authentication endpoint and of the token endpoint
AuthBodies ==
  { <<"a", "\n", "b", "\n", "Auth=", "TOKEN123", "\n">>,
    <<"Auth=", "TOKEN123", "\n", "b", "\n", "c">>,
    <<"SID=", "x", "\n", "Auth=", "TOKEN123">>,
    <<"Error=BadAuthentication", "\n">> }
CredBodies == {"P1", "P2\n"}
Credentials ==
  { <<JsStr(<<"a@b.com">>), JsStr(<<"pw">>)>>,
    <<JsStr(EmptyString), JsStr(<<"pw">>)>>,
    <<JsStr(<<"a@b.com">>), Undefined>> }
NoUrl == [url |-> Omitted, client |-> "my app", autoPostToken |-> Omitted]

\* the request getAuthToken hands to fetch
getAuthTokenFetch(username, password) ==
  [method |-> "POST", url |-> urlAuth, headers |-> NoHeaders, hasBody |-> TRUE,
   body |-> << <<"Email", username>>, <<"Passwd", password>> >>]


\* getAuthToken is called: lines 179-190
getAuthToken(c, username, password) ==
  /\ call[c].pc \in {"idle", "done"}
  /\ IF Falsy(username) \/ Falsy(password)
     THEN call' = [call EXCEPT ![c] =
            [Idle EXCEPT !.pc = "done", !.op = "getAuthToken",
                         !.args = <<username, password>>,
                         !.outcome = Error("missing username or password")]]
     ELSE call' = [call EXCEPT ![c] =
            [Idle EXCEPT !.pc = "auth", !.op = "getAuthToken",
                         !.args = <<username, password>>,
                         !.sent = <<Sent(getAuthTokenFetch(username.s, password.s), 0)>>]]
  /\ UNCHANGED <<tokenAuth, tokenPost, lastPostWrite, nSets>>
  /\ Frame

\* faulty variant of AuthTokenAfter: the token stored before the status is
\* looked at
AuthTokenStoredFirst(status, body) ==
  IF status # NetworkFailure /\ Len(split(body)) >= 3
  THEN Join(replace(split(body)[3], "Auth=")) ELSE tokenAuth

\* the auth token held once getAuthToken has handled its response
AuthTokenAfter(status, body) ==
  IF Ok(status) /\ Len(split(body)) >= 3
  THEN Join(replace(split(body)[3], "Auth=")) ELSE tokenAuth

\* a response of the authentication endpoint as handled, with the auth token
\* held afterwards
RcvdAuth(status, body, authAfter) ==
  [status |-> status, body |-> body, auth |-> tokenAuth, post |-> tokenPost,
   postAfter |-> tokenPost, authAfter |-> authAfter]

\* the fetch of getAuthToken settles: lines 192-197
AuthResponse(c, status, body) ==
  /\ call[c].pc = "auth"
  /\ tokenAuth' = AuthTokenAfter(status, body)
  /\ IF status = NetworkFailure
     THEN call' = [call EXCEPT ![c].pc = "done",
                               ![c].rcvd = Append(@, RcvdAuth(status, <<>>, tokenAuth')),
                               ![c].outcome = TransportError]
     ELSE IF ~Ok(status)
     THEN call' = [call EXCEPT ![c].pc = "done",
                               ![c].rcvd = Append(@, RcvdAuth(status, body, tokenAuth')),
                               ![c].outcome = ApiError(body, status)]
     ELSE IF Len(split(body)) < 3
     THEN call' = [call EXCEPT ![c].pc = "done",
                               ![c].rcvd = Append(@, RcvdAuth(status, body, tokenAuth')),
                               ![c].outcome = TypeError]
     ELSE call' = [call EXCEPT ![c].pc = "done",
                               ![c].rcvd = Append(@, RcvdAuth(status, body, tokenAuth')),
                               ![c].outcome = Resolved("token", tokenAuth')]
  /\ UNCHANGED <<tokenPost, lastPostWrite, nSets>>
  /\ Frame

\* getPostToken is called by the application: lines 218-226
getPostToken(c) ==
  /\ call[c].pc \in {"idle", "done"}
  /\ IF ~Truthy(tokenAuth)
     THEN call' = [call EXCEPT ![c] =
            [Idle EXCEPT !.pc = "done", !.op = "getPostToken",
                         !.outcome = Error("no auth token")]]
     ELSE call' = [call EXCEPT ![c] =
            [Idle EXCEPT !.pc = "token", !.op = "getPostToken",
                         !.sent = <<Sent(getPostTokenFetch, 0)>>]]
  /\ UNCHANGED <<tokenAuth, tokenPost, lastPostWrite, nSets>>
  /\ Frame

\* the operations called besides the credential exchanges: a GET, a POST and
\* the calls whose arguments fail a local check
CredOperations ==
  {op \in AllOperations :
     CASE op.name \in {"getUserInfo", "renameTag"} -> op \in Operations
       [] op.name \in {"getItems", "getItemIds"} ->
            op.args[1] = JsStr(EmptyString) /\ op.args[2] = NoOpts
       [] op.name = "setAllRead" -> op.args[1] = JsStr(LabelName)
       [] op.name \in {"addItemTag", "removeItemTag"} -> op.args[2].t = "array"
       [] OTHER -> FALSE}

\* the program after new Reader(config): the instance, or nothing but the
\* error thrown when config has no url
InitCred ==
  /\ config \in Configs \cup {NoUrl}
  /\ url = IF constructor(config).throws THEN <<>> ELSE constructor(config).url
  /\ urlAuth = IF constructor(config).throws THEN <<>> ELSE constructor(config).urlAuth
  /\ client = IF constructor(config).throws THEN "" ELSE constructor(config).client
  /\ autoPostToken = (~constructor(config).throws /\ constructor(config).autoPostToken)
  /\ tokenAuth = NoToken
  /\ tokenPost = NoToken
  /\ lastPostWrite = NoToken
  /\ nSets = 0
  /\ Unloaded
  /\ call = [c \in Calls |->
              IF constructor(config).throws
              THEN [Idle EXCEPT !.pc = "done", !.op = "constructor",
                                !.outcome = Error("url is required")]
              ELSE Idle]

\* there is an instance: the constructor has not thrown
Built == ~constructor(config).throws

NextCred ==
  \/ \E c \in Calls, cred \in Credentials : Built /\ getAuthToken(c, cred[1], cred[2])
  \/ \E c \in Calls, status \in {200, 401, NetworkFailure}, body \in AuthBodies :
       AuthResponse(c, status, body)
  \/ \E c \in Calls : Built /\ getPostToken(c)
  \/ \E c \in Calls, op \in CredOperations, now \in Clock : Built /\ Start(c, op, now)
  \/ \E c \in Calls, status \in {200, 401, NetworkFailure}, body \in TargetBodies :
       Response(c, status, body)
  \/ \E c \in Calls, status \in {200, 401, NetworkFailure}, body \in CredBodies :
       TokenResponse(c, status, body)
  \/ \E c \in Calls, now \in Clock : Retry(c, now)
  \/ \E token \in {"A1", NoToken} : Built /\ setAuthToken(token)
  \/ \E token \in {"P1", NoToken} : Built /\ setPostToken(token)

SpecCred == InitCred /\ [][NextCred]_vars

\* ----------------------------------------------------- one call to its end
\* One public operation is called on the client; every request it dispatches
\* is eventually answered or fails in transport, and every continuation that
\* has been resumed eventually runs.
NextOnce ==
  \/ \E c \in Calls, op \in AllOperations \cup BulkOperations, now \in Clock :
       call[c].pc = "idle" /\ Start(c, op, now)
  \/ \E c \in Calls, cred \in Credentials :
       call[c].pc = "idle" /\ getAuthToken(c, cred[1], cred[2])
  \/ \E c \in Calls : call[c].pc = "idle" /\ getPostToken(c)
  \/ \E c \in Calls, status \in Statuses \cup {NetworkFailure} :
       \E body \in JsonBodies(call[c].op) : Response(c, status, body)
  \/ \E c \in Calls, status \in Statuses \cup {NetworkFailure}, body \in Bodies :
       TokenResponse(c, status, body)
  \/ \E c \in Calls, status \in Statuses \cup {NetworkFailure}, body \in AuthBodies :
       AuthResponse(c, status, body)
  \/ \E c \in Calls, now \in Clock : Retry(c, now)

\* a continuation of call c runs
Continue(c) ==
  \/ \E status \in Statuses \cup {NetworkFailure} :
       \E body \in JsonBodies(call[c].op) : Response(c, status, body)
  \/ \E status \in Statuses \cup {NetworkFailure}, body \in Bodies :
       TokenResponse(c, status, body)
  \/ \E status \in Statuses \cup {NetworkFailure}, body \in AuthBodies :
       AuthResponse(c, status, body)
  \/ \E now \in Clock : Retry(c, now)

FairOnce == InitOps /\ [][NextOnce]_vars /\ \A c \in Calls : WF_vars(Continue(c))

\* ------------------------------------------------- the callback library
\* main.ts: makeRequest with its success and failure callbacks, next to a
\* call of the promise-based client; both hold the same credentials.
mainCLIENT == "Tibfib"
BASE_URL == ""
TOKEN_SUFFIX == "token"
USERINFO_SUFFIX == "user-info"
RENAME_LABEL_SUFFIX == "rename-tag"
TAGS ==
  [label |-> <<"user/-/label/">>,
   star |-> <<"user/-/state/com.google/", "starred">>,
   read |-> <<"user/-/state/com.google/", "read">>]

\* obj.parameters[key] = value
SetParameter(parameters, key, value) ==
  IF \E i \in 1..Len(parameters) : parameters[i][1] = key
  THEN [i \in 1..Len(parameters) |->
          IF parameters[i][1] = key THEN <<key, value>> ELSE parameters[i]]
  ELSE Append(parameters, <<key, value>>)

RECURSIVE getQueries(_)
\* queries.join('&') of getQueries(obj.parameters)
getQueries(parameters) ==
  IF parameters = <<>> THEN <<>>
  ELSE <<parameters[1][1], "=">> \o encodeURIComponent(parameters[1][2])
       \o (IF Len(parameters) > 1 THEN <<"&">> \o getQueries(Tail(parameters)) ELSE <<>>)

\* makeRequest up to request.send, token being the readerToken of the
\* moment: obj as it leaves it and the request sent
makeRequestSend(obj, noAuth, now, token) ==
  LET method == IF obj.method = "" THEN "GET" ELSE obj.method
      added == IF method = "GET"
               THEN SetParameter(SetParameter(SetParameter(SetParameter(SetParameter(
                      obj.parameters, "ck", <<ToString(now)>>),
                      "accountType", <<"GOOGLE">>), "service", <<"reader">>),
                      "output", <<"json">>), "client", <<mainCLIENT>>)
               ELSE obj.parameters
      parameters == IF token # NoToken /\ method = "POST"
                    THEN SetParameter(added, "T", <<token>>) ELSE added
      queryString == getQueries(parameters)
  IN [obj |-> [obj EXCEPT !.method = method, !.parameters = parameters],
      request |->
        [method |-> method,
         url |-> IF method = "GET" THEN obj.url \o <<"?">> \o queryString
                 ELSE obj.url \o <<"?", "client", "=">> \o encodeURIComponent(<<mainCLIENT>>),
         headers |-> [Authorization |-> IF readerAuth # NoToken /\ ~noAuth
                                        THEN GoogleLogin(readerAuth) ELSE <<>>],
         hasBody |-> method = "POST",
         body |-> IF method = "POST" THEN queryString ELSE <<>>]]

\* the obj of reader.getToken
getTokenObj ==
  [method |-> "GET", url |-> <<BASE_URL, TOKEN_SUFFIX>>, parameters |-> <<>>,
   tried |-> FALSE]

\* the descriptors handed to makeRequest by getUserInfo and by
\* reader.editLabelTitle, and one that names no method
Descriptors ==
  { [method |-> "GET", url |-> <<BASE_URL, USERINFO_SUFFIX>>, parameters |-> <<>>,
     tried |-> FALSE],
    [method |-> "", url |-> <<BASE_URL, USERINFO_SUFFIX>>, parameters |-> <<>>,
     tried |-> FALSE],
    [method |-> "POST", url |-> <<BASE_URL, RENAME_LABEL_SUFFIX>>,
     parameters |-> << <<"s", LabelId>>, <<"t", LabelId>>,
                       <<"dest", TAGS.label \o <<"newer">> >> >>,
     tried |-> FALSE] }

FrameReader ==
  UNCHANGED <<config, url, urlAuth, client, autoPostToken, tokenAuth, tokenPost,
              call, nSets, lastPostWrite>>

\* makeRequest(obj) is called with both callbacks given
makeRequest(obj, now) ==
  /\ xhr.pc = "idle"
  /\ LET m == makeRequestSend(obj, FALSE, now, readerToken) IN
       xhr' = [NoRequest EXCEPT !.pc = "sent", !.obj = m.obj, !.sent = <<m.request>>]
  /\ UNCHANGED <<readerAuth, readerToken>>
  /\ FrameReader

\* request.onreadystatechange with readyState 4: lines 140-172 for the
\* request of obj, and for the request of reader.getToken (lines 224-240),
\* whose success callback marks obj as tried and calls makeRequest again
onreadystatechange(status, body, now) ==
  /\ xhr.pc \in {"sent", "token"}
  /\ IF xhr.pc = "sent"
     THEN /\ readerToken' = readerToken
          /\ IF status = 200
             THEN xhr' = [xhr EXCEPT !.pc = "done", !.rcvd = Append(@, status),
                                     !.called = "onSuccess"]
             ELSE IF xhr.obj.method = "POST"
             THEN IF ~xhr.obj.tried
                  THEN xhr' = [xhr EXCEPT
                         !.pc = "token", !.rcvd = Append(@, status),
                         !.sent = Append(@, makeRequestSend(getTokenObj, FALSE, now,
                                                            readerToken).request)]
                  ELSE xhr' = [xhr EXCEPT !.pc = "done", !.rcvd = Append(@, status)]
             ELSE xhr' = [xhr EXCEPT !.pc = "done", !.rcvd = Append(@, status),
                                     !.called = "onFailure"]
     ELSE IF status = 200
          THEN /\ readerToken' = body
               /\ LET m == makeRequestSend([xhr.obj EXCEPT !.tried = TRUE], FALSE, now, body)
                  IN xhr' = [xhr EXCEPT !.pc = "sent", !.rcvd = Append(@, status),
                                        !.obj = m.obj, !.sent = Append(@, m.request)]
          ELSE /\ readerToken' = readerToken
               /\ xhr' = [xhr EXCEPT !.pc = "done", !.rcvd = Append(@, status),
                                     !.called = "onFailure"]
  /\ UNCHANGED readerAuth
  /\ FrameReader

\* the client and the library loaded with the same credentials
InitLegacy ==
  /\ config = [url |-> BaseUrl, client |-> Omitted, autoPostToken |-> Omitted]
  /\ url = constructor(config).url
  /\ urlAuth = constructor(config).urlAuth
  /\ client = constructor(config).client
  /\ autoPostToken = constructor(config).autoPostToken
  /\ tokenAuth = "A1"
  /\ tokenPost \in {"P1", NoToken}
  /\ lastPostWrite = tokenPost
  /\ nSets = 0
  /\ call = [c \in Calls |-> Idle]
  /\ readerAuth = tokenAuth
  /\ readerToken = tokenPost
  /\ xhr = NoRequest

\* the operations of the client that correspond to Descriptors
Counterparts == {op \in Operations : op.name \in {"getUserInfo", "renameTag"}}

NextLegacy ==
  \/ \E c \in Calls, op \in Counterparts, now \in Clock :
       call[c].pc = "idle" /\ Start(c, op, now)
  \/ \E c \in Calls, status \in Statuses, body \in TargetBodies :
       Response(c, status, body)
  \/ \E c \in Calls, status \in Statuses, body \in Bodies :
       TokenResponse(c, status, body)
  \/ \E c \in Calls, now \in Clock : Retry(c, now)
  \/ \E obj \in Descriptors, now \in Clock : makeRequest(obj, now)
  \/ \E status \in Statuses, body \in Bodies, now \in Clock :
       onreadystatechange(status, body, now)

SpecLegacy == InitLegacy /\ [][NextLegacy]_vars

\* ------------------------------------------- the utilities of main.ts
\* reader.isRead and reader.isStarred are applied to an article; a string is
\* the sequence of its pieces, cut where readerIdRegExp can begin or end.
JsBool(b) ==
  [t |-> "boolean", s |-> <<IF b THEN "true" ELSE "false">>, n |-> 0, a |-> <<>>]
DigitRuns == {"123", "7"}

\* the least position where /user\/\d*\// matches id, 0 when there is none:
\* user/, then digits or nothing, then /
MatchAt(id, i) ==
  /\ id[i] = "user/"
  /\ \/ i + 1 <= Len(id) /\ id[i + 1] = "/"
     \/ i + 2 <= Len(id) /\ id[i + 1] \in DigitRuns /\ id[i + 2] = "/"
FirstMatch(id) ==
  IF \E i \in 1..Len(id) : MatchAt(id, i)
  THEN CHOOSE i \in 1..Len(id) :
         MatchAt(id, i) /\ \A j \in 1..(i - 1) : ~MatchAt(id, j)
  ELSE 0

\* faulty variant of correctId: the ID compared as it is
correctIdAsIs(id) == id

\* reader.correctId: id.replace(readerIdRegExp, 'user/-/')
correctId(id) ==
  LET i == FirstMatch(id) IN
  IF i = 0 THEN id
  ELSE SubSeq(id, 1, i - 1) \o <<"user/-/">>
       \o SubSeq(id, i + (IF id[i + 1] = "/" THEN 2 ELSE 3), Len(id))

toLowerCase(piece) ==
  CASE piece = "TRUE" -> "true"
    [] piece = "True" -> "true"
    [] piece = "TR" -> "tr"
    [] piece = "UE" -> "ue"
    [] OTHER -> piece
\* trueRegExp.test(value): /^true$/i on String(value)
trueRegExpTest(value) ==
  Join([i \in 1..Len(String(value)) |-> toLowerCase(String(value)[i])]) = "true"

isRead(article) ==
  IF article.read # Undefined THEN trueRegExpTest(article.read)
  ELSE \E i \in 1..Len(article.categories) :
         Join(correctId(article.categories[i])) = Join(TAGS.read)

isStarred(article) ==
  IF article.starred # Undefined THEN trueRegExpTest(article.starred)
  ELSE \E i \in 1..Len(article.categories) :
         Join(correctId(article.categories[i])) = Join(TAGS.star)

\* categories as a server or a caller writes them
Categories ==
  { <<"user/", "123", "/", "state/com.google/", "read">>,
    <<"user/-/state/com.google/", "read">>,
    <<"user/", "7", "/", "state/com.google/", "starred">>,
    <<"user/-/state/com.google/", "starred">>,
    <<"user/", "/", "state/com.google/", "read">>,
    <<"x", "user/", "123", "/", "state/com.google/", "read">>,
    <<"user/", "123", "/", "user/", "7", "/", "state/com.google/", "starred">>,
    <<"user/", "123", "/", "label/", "read">> }
RECURSIVE Lists(_)
\* the lists of exactly n categories
Lists(n) ==
  IF n = 0 THEN {<<>>}
  ELSE {Append(list, category) : list \in Lists(n - 1), category \in Categories}
Flags ==
  { Undefined, JsStr(<<"true">>), JsStr(<<"TRUE">>), JsStr(<<"TR", "ue">>),
    JsStr(<<"false">>), JsStr(<<"true", " ">>), JsStr(EmptyString), JsBool(TRUE) }
Article(read, starred, categories) ==
  [read |-> read, starred |-> starred, categories |-> categories]
Articles ==
  {Article(read, starred, categories) :
     read \in Flags, starred \in {Undefined, JsStr(<<"True">>), JsBool(FALSE)},
     categories \in UNION {Lists(n) : n \in 0..MaxCategories}}

InitUtil ==
  /\ config = [url |-> BaseUrl, client |-> Omitted, autoPostToken |-> Omitted]
  /\ url = constructor(config).url
  /\ urlAuth = constructor(config).urlAuth
  /\ client = constructor(config).client
  /\ autoPostToken = constructor(config).autoPostToken
  /\ tokenAuth = NoToken
  /\ tokenPost = NoToken
  /\ lastPostWrite = NoToken
  /\ nSets = 0
  /\ Unloaded
  /\ \E article \in Articles : call = [c \in Calls |-> [Idle EXCEPT !.args = <<article>>]]

\* reader.isRead(article) and reader.isStarred(article) are called
IsReadCall(c) ==
  /\ call[c].op \in {"", "isRead", "isStarred"}
  /\ call' = [call EXCEPT ![c].pc = "done", ![c].op = "isRead",
                          ![c].outcome = Returned(isRead(call[c].args[1]))]
  /\ UNCHANGED <<tokenAuth, tokenPost, lastPostWrite, nSets>>
  /\ Frame
IsStarredCall(c) ==
  /\ call[c].op \in {"", "isRead", "isStarred"}
  /\ call' = [call EXCEPT ![c].pc = "done", ![c].op = "isStarred",
                          ![c].outcome = Returned(isStarred(call[c].args[1]))]
  /\ UNCHANGED <<tokenAuth, tokenPost, lastPostWrite, nSets>>
  /\ Frame

NextUtil ==
  \/ \E c \in Calls : IsReadCall(c)
  \/ \E c \in Calls : IsStarredCall(c)

SpecUtil == InitUtil /\ [][NextUtil]_vars

\* ================================================================ claims
\* what a call has put on the wire
Endpoint(request) == SubSeq(request.url, 1, 3)
IsTokenRequest(request) == request.method = "GET" /\ request.url = url \o <<"token">>
TokenRequests(k) == Cardinality({i \in 1..Len(k.sent) : IsTokenRequest(k.sent[i].req)})
TargetRequests(k) ==
  Cardinality({i \in 1..Len(k.sent) : Endpoint(k.sent[i].req) = Endpoint(k.sent[1].req)})
Retries(k) ==
  Cardinality({i \in 2..Len(k.sent) : Endpoint(k.sent[i].req) = Endpoint(k.sent[1].req)})
Failed(status) == status # NetworkFailure /\ ~Ok(status)
\* the first attempt was a POST answered 400 or 401
FirstRejected(k) ==
  /\ Len(k.rcvd) >= 1
  /\ k.sent[1].req.method = "POST"
  /\ k.rcvd[1].status \in {400, 401}
AllCalls == {call[c] : c \in DOMAIN call}

\* C1: with autoPostToken set and an auth token held, a first-attempt POST
\* answered 400 or 401 is followed by exactly one token request and, once the
\* 2xx token response has been stored as the post token, by exactly one
\* retry; a 2xx answer to the retry resolves the call to its decoded value.
C1_RefreshThenRetry ==
  \A k \in AllCalls :
    (autoPostToken /\ FirstRejected(k) /\ Truthy(k.rcvd[1].auth)) =>
      /\ TokenRequests(k) = 1
      /\ IsTokenRequest(k.sent[2].req)
      /\ Retries(k) <= 1
      /\ (Retries(k) = 1) <=> (Len(k.rcvd) >= 2 /\ Ok(k.rcvd[2].status) /\ k.pc # "stored")
      /\ Retries(k) = 1 =>
           /\ Len(k.sent) = 3
           /\ k.sent[3].req.method = "POST"
           /\ k.rcvd[2].postAfter = k.rcvd[2].body
      /\ (Len(k.rcvd) = 3 /\ Ok(k.rcvd[3].status)) =>
           /\ k.pc = "done"
           /\ k.outcome = Resolved(k.d.type, k.rcvd[3].body)
C1_Witness ==
  \E k \in AllCalls :
    /\ autoPostToken /\ FirstRejected(k) /\ Truthy(k.rcvd[1].auth)
    /\ Len(k.rcvd) = 3 /\ Ok(k.rcvd[3].status) /\ k.rcvd[3].body # k.rcvd[2].body
    /\ k.outcome.kind = "value"

\* C2: a call sends at most two requests to its endpoint and at most one
\* token request; a retry answered with a non-2xx status ends the call with
\* ApiError carrying that response's status and body, nothing more is sent.
C2_AtMostOneRetry ==
  \A k \in AllCalls :
    Len(k.sent) >= 1 =>
      /\ TargetRequests(k) <= 2
      /\ TokenRequests(k) <= 1
      /\ (Len(k.rcvd) = 3 /\ Failed(k.rcvd[3].status)) =>
           /\ k.pc = "done"
           /\ Len(k.sent) = 3
           /\ k.outcome = ApiError(k.rcvd[3].body, k.rcvd[3].status)
C2_Witness ==
  \E k \in AllCalls :
    /\ Len(k.rcvd) = 3 /\ k.rcvd[1].status = 401 /\ k.rcvd[3].status = 400
    /\ k.outcome.kind = "ApiError" /\ k.outcome.status = 400

\* C3: a GET answered non-2xx, and a POST answered non-2xx other than
\* 400/401, send one request, none to the token endpoint, and fail with
\* ApiError carrying that status and body; a token request is only ever the
\* answer to a first-attempt POST rejected with 400 or 401.
C3_RefreshOnlyOnRejectedPost ==
  \A k \in AllCalls :
    /\ (Len(k.rcvd) >= 1 /\ Failed(k.rcvd[1].status)
        /\ (k.sent[1].req.method = "GET" \/ k.rcvd[1].status \notin {400, 401})) =>
         /\ k.pc = "done"
         /\ Len(k.sent) = 1
         /\ TokenRequests(k) = 0
         /\ k.outcome = ApiError(k.rcvd[1].body, k.rcvd[1].status)
    /\ (Len(k.sent) >= 1 /\ TokenRequests(k) >= 1) =>
         /\ FirstRejected(k)
         /\ IsTokenRequest(k.sent[2].req)
C3_Witness ==
  \E k \in AllCalls :
    /\ Len(k.rcvd) = 1 /\ k.sent[1].req.method = "GET" /\ k.rcvd[1].status = 401
    /\ Truthy(k.rcvd[1].auth) /\ autoPostToken
    /\ k.outcome = ApiError(k.rcvd[1].body, 401)

\* C4: a token request answered non-2xx ends the call with ApiError carrying
\* the token endpoint's status and body, no retry is sent and the post token
\* is what it was.
C4_RefreshFailure ==
  \A k \in AllCalls :
    (Len(k.rcvd) >= 2 /\ IsTokenRequest(k.sent[2].req) /\ Failed(k.rcvd[2].status)) =>
      /\ k.pc = "done"
      /\ k.outcome = ApiError(k.rcvd[2].body, k.rcvd[2].status)
      /\ Retries(k) = 0
      /\ Len(k.sent) = 2
      /\ k.rcvd[2].postAfter = k.rcvd[2].post
C4_Witness ==
  \E k \in AllCalls :
    /\ Len(k.rcvd) = 2 /\ k.rcvd[1].status = 401 /\ k.rcvd[2].status = 500
    /\ Truthy(k.rcvd[2].post) /\ k.rcvd[2].body # k.rcvd[2].post
    /\ k.outcome = ApiError(k.rcvd[2].body, 500)

\* the body parameters the operation supplied: all but the reserved key T
WithoutT(body) == SelectSeq(body, LAMBDA e : e[1] # "T")

\* C5: the retry has the method, the URL (endpoint, then one client=<id>) and
\* the caller's body parameters, in order, of the first attempt.
C5_RetryIdentical ==
  \A k \in AllCalls :
    (Len(k.sent) = 3) =>
      /\ k.sent[3].req.method = k.sent[1].req.method
      /\ k.sent[1].req.url =
           Endpoint(k.sent[1].req) \o <<"?client=">> \o encodeURIComponent(<<client>>)
      /\ k.sent[3].req.url = k.sent[1].req.url
      /\ WithoutT(k.sent[3].req.body) = WithoutT(k.sent[1].req.body)

\* C6: every POST carries the key T at most once, exactly when a post token
\* is held at dispatch, with that token as its value.
C6_TokenOnce ==
  \A k \in AllCalls : \A i \in 1..Len(k.sent) :
    k.sent[i].req.method = "POST" =>
      LET Ts == SelectSeqOf(k.sent[i].req.body, "T") IN
        /\ Len(Ts) <= 1
        /\ (Len(Ts) = 1) <=> Truthy(k.sent[i].postAt)
        /\ Len(Ts) = 1 => Ts[1][2] = <<k.sent[i].postAt>>

\* C7: every request carries Authorization: GoogleLogin auth=<t> for the
\* auth token t held at its dispatch, and no Authorization header when none
\* is held then.
C7_AuthHeader ==
  \A k \in AllCalls : \A i \in 1..Len(k.sent) :
    k.sent[i].req.headers.Authorization =
      IF Truthy(k.sent[i].authAt) THEN GoogleLogin(k.sent[i].authAt) ELSE <<>>

\* C8: built with autoPostToken false, a POST answered 400 or 401 sends one
\* request, fails with ApiError of that status and leaves the post token
\* alone; built without autoPostToken, the client refreshes as with true.
C8_AutoPostTokenOff ==
  /\ config.autoPostToken = "false" =>
       \A k \in AllCalls : FirstRejected(k) =>
         /\ k.pc = "done"
         /\ Len(k.sent) = 1
         /\ k.outcome = ApiError(k.rcvd[1].body, k.rcvd[1].status)
         /\ k.rcvd[1].postAfter = k.rcvd[1].post
  /\ config.autoPostToken = Omitted =>
       /\ autoPostToken = TRUE
       /\ \A k \in AllCalls : (FirstRejected(k) /\ Truthy(k.rcvd[1].auth)) =>
            TokenRequests(k) = 1
C8_Witness ==
  /\ config.autoPostToken = "false"
  /\ \E k \in AllCalls :
       /\ FirstRejected(k) /\ Truthy(k.rcvd[1].auth) /\ Truthy(k.rcvd[1].post)
       /\ k.outcome.kind = "ApiError" /\ k.outcome.status = 400

\* C9: of two POST calls in flight together, each one rejected with 400/401
\* sends its own token request and, its refresh answered 2xx, its own single
\* retry, whatever the other call has done (two token requests and two
\* retries when both do); and both calls complete.
C9_Own(k) ==
  (autoPostToken /\ FirstRejected(k) /\ Truthy(k.rcvd[1].auth)) =>
    /\ TokenRequests(k) = 1
    /\ Retries(k) <= 1
    /\ (Len(k.rcvd) >= 2 /\ Ok(k.rcvd[2].status)) => (k.pc = "stored" \/ Retries(k) = 1)
C9_Retried(k) ==
  /\ autoPostToken /\ FirstRejected(k) /\ Truthy(k.rcvd[1].auth)
  /\ Len(k.rcvd) >= 2 /\ Ok(k.rcvd[2].status) /\ k.pc # "stored"
C9_Safe ==
  /\ \A k \in AllCalls : C9_Own(k)
  /\ (C9_Retried(call["c1"]) /\ C9_Retried(call["c2"])) =>
       /\ TokenRequests(call["c1"]) + TokenRequests(call["c2"]) = 2
       /\ Retries(call["c1"]) + Retries(call["c2"]) = 2
\* C9: each of two concurrent POST calls rejected with 400/401 refreshes and
\* retries on its own, and every call in flight completes.
C9_EachRefreshesAndRetries ==
  /\ []C9_Safe
  /\ \A c \in Concurrent : (call[c].pc \in {"fetch", "token", "stored"}) ~> (call[c].pc = "done")
C9_Witness ==
  /\ C9_Retried(call["c1"]) /\ C9_Retried(call["c2"])
  /\ call["c1"].pc = "done" /\ call["c2"].pc = "done"
  /\ call["c1"].rcvd[2].body # call["c2"].rcvd[2].body
  /\ call["c1"].sent[3].postAt = call["c2"].rcvd[2].body

\* C10: the post token is the one most recently written, every POST
\* dispatched carries it whichever call wrote it, and a failed retry leaves
\* the refreshed token stored.
C10_LastWriteWins ==
  /\ tokenPost = lastPostWrite
  /\ \A k \in AllCalls :
       /\ \A i \in 1..Len(k.sent) :
            (k.sent[i].req.method = "POST" /\ Truthy(k.sent[i].writeAt)) =>
              k.sent[i].req.body[Len(k.sent[i].req.body)] = <<"T", <<k.sent[i].writeAt>> >>
       /\ (Len(k.rcvd) = 3 /\ ~Ok(k.rcvd[3].status)) =>
            k.rcvd[3].postAfter = k.rcvd[3].post
C10_Witness ==
  \E a, b \in DOMAIN call :
    /\ a # b
    /\ Len(call[a].rcvd) = 3 /\ Failed(call[a].rcvd[3].status)
    /\ tokenPost = call[a].rcvd[2].body
    /\ Len(call[b].sent) = 3
    /\ call[b].rcvd[2].body # call[a].rcvd[2].body
    /\ call[b].sent[3].writeAt = call[a].rcvd[2].body
    /\ <<"T", <<tokenPost>> >> = call[b].sent[3].req.body[Len(call[b].sent[3].req.body)]

\* the query string of a GET: the keys present and the first chunk of each
\* value (the chunk after "=", or "&" / nothing when the value is empty)
QueryKeyAt(u, j, key) ==
  j >= 2 /\ j < Len(u) /\ u[j - 1] \in {"?", "&"} /\ u[j] = key /\ u[j + 1] = "="
HasQueryKey(u, key) == \E j \in 1..Len(u) : QueryKeyAt(u, j, key)
QueryValueEmpty(u, j) == j + 2 > Len(u) \/ u[j + 2] = "&"
\* the keys of a request, in its query string or in its body
HasKey(request, key) ==
  IF request.method = "GET" THEN HasQueryKey(request.url, key)
  ELSE SelectSeqOf(request.body, key) # <<>>
EncodedPrefixes == {formChunk(p) : p \in STREAM_PREFIXES}
StreamKeys == {"s", "a", "r", "dest"}
StreamOps == {"addFeed", "removeFeed", "renameFeed", "addFeedTag", "removeFeedTag",
              "renameTag", "setAllRead", "addItemTag", "removeItemTag",
              "getItems", "getItemIds"}

\* C16: in every request of the operations that take stream references, the
\* values of s, a, r and dest in a POST body, the value of s in the query of
\* getItemIds and the stream segment of the path of getItems start with one
\* of the three canonical prefixes (URL-encoded where the URL carries them).
C16_StreamIdsCanonical ==
  \A k \in AllCalls : \A i \in 1..Len(k.sent) :
    LET request == k.sent[i].req IN
    (k.op \in StreamOps /\ ~IsTokenRequest(request)) =>
      /\ request.method = "POST" =>
           \A e \in 1..Len(request.body) :
             request.body[e][1] \in StreamKeys => IsStreamId(request.body[e][2])
      /\ k.op = "getItemIds" =>
           /\ HasQueryKey(request.url, "s")
           /\ \A j \in 1..Len(request.url) :
                QueryKeyAt(request.url, j, "s") =>
                  (~QueryValueEmpty(request.url, j) /\ request.url[j + 2] \in EncodedPrefixes)
      /\ k.op = "getItems" =>
           /\ SubSeq(request.url, 1, 3) = url \o <<"stream/contents/">>
           /\ request.url[4] \in {encodeChunk(p) : p \in STREAM_PREFIXES}
C16_Witness ==
  \E k \in AllCalls :
    /\ k.op = "addFeed"
    /\ k.args[1].t = "object" /\ k.args[1].url = JsStr(FeedUrl)
    /\ k.args[1].tag = JsStr(LabelName)
    /\ Len(k.sent) = 3
    /\ SelectSeqOf(k.sent[3].req.body, "s") = << <<"s", FeedId>> >>
    /\ SelectSeqOf(k.sent[3].req.body, "a") = << <<"a", LabelId>> >>

\* C17: when getItems or getItemIds is given an exclude option, the request
\* carries xt and its value starts with one of the three canonical prefixes.
C17_ExcludeCanonical ==
  \A k \in AllCalls : \A i \in 1..Len(k.sent) :
    (k.op \in {"getItems", "getItemIds"} /\ ~Falsy(k.args[2].exclude)) =>
      /\ HasQueryKey(k.sent[i].req.url, "xt")
      /\ \A j \in 1..Len(k.sent[i].req.url) :
           QueryKeyAt(k.sent[i].req.url, j, "xt") =>
             (~QueryValueEmpty(k.sent[i].req.url, j)
              /\ k.sent[i].req.url[j + 2] \in EncodedPrefixes)

\* C18: ensureStream called on an input that starts with any of the three
\* canonical prefixes returns that input, whatever the role asked for.
C18_CanonicalUnchanged ==
  \A k \in AllCalls :
    (k.op = "ensureStream" /\ IsStreamId(k.args[1].s)) =>
      k.outcome = Returned(k.args[1].s)
C18_Witness ==
  \E k \in AllCalls :
    /\ k.op = "ensureStream"
    /\ k.args = <<JsStr(ReadId), JsStr(<<"FEED">>)>>
    /\ k.outcome = Returned(ReadId)

\* the values of s a call put in its first request
SentS(k) == SelectSeqOf(k.sent[1].req.body, "s")
C19_Step ==
  \A c \in DOMAIN call :
    LET k == call[c]
        k2 == call'[c]
    IN /\ (k2.op = "ensureStream" /\ ~IsStreamId(k2.args[1].s)) =>
            k2.outcome = Returned(<<STREAM_TYPES[k2.args[2].s[1]]>> \o k2.args[1].s)
       /\ (k.op = "ensureStream" /\ k2.op = "ensureStream"
           /\ k2.args[1].s = k.outcome.value) =>
            k2.outcome = k.outcome
       /\ (k.op = "addFeedTag" /\ k2.op = "addFeedTag"
           /\ Len(k.sent) >= 1 /\ Len(k2.sent) = 1
           /\ k.args[1].t = "string" /\ ~IsStreamId(k.args[1].s)
           /\ k2.args[1] = JsStr(<<"feed/">> \o k.args[1].s)) =>
            /\ SentS(k) = << <<"s", <<"feed/">> \o k.args[1].s>> >>
            /\ SentS(k2) = SentS(k)
\* C19: ensureStream of an input with no canonical prefix returns the role's
\* prefix followed by the input; ensureStream of a value ensureStream returned
\* returns that value, whatever the role; addFeedTag called for a bare URL and
\* then for feed/<that URL> sends the same s value both times.
C19_PrefixOnceIdempotent == [][C19_Step]_vars
C19_Witness ==
  \E k \in AllCalls :
    /\ k.op = "ensureStream"
    /\ Len(k.args[1].s) = 3
    /\ k.args[1].s[1] = "user/-/label/"
    /\ k.args[2] = JsStr(<<"FEED">>)
    /\ k.outcome = Returned(k.args[1].s)

\* the absent optional inputs of a call, as the keys they would be sent under
AbsentKeys(k) ==
  CASE k.op \in {"getItems", "getItemIds"} ->
         {key \in {"c", "xt", "ot", "nt"} :
            k.args[2][CASE key = "c" -> "continuation" [] key = "xt" -> "exclude"
                        [] key = "ot" -> "sMin" [] OTHER -> "sMax"] = Undefined}
    [] k.op = "setAllRead" -> IF k.args[2] = Undefined THEN {"ts"} ELSE {}
    [] k.op = "addFeed" ->
         IF k.args[1].t = "object"
         THEN (IF k.args[1].title = Undefined THEN {"t"} ELSE {})
              \cup (IF k.args[1].tag = Undefined THEN {"a"} ELSE {})
         ELSE {"t", "a"}
    [] k.op = "renameFeed" ->
         IF k.args[1].t = "object" /\ k.args[1].title = Undefined THEN {"t"} ELSE {}
    [] OTHER -> {}

\* C20: a request carries no key for an optional input the caller left
\* absent, and no value reading 'undefined', in its query or in its body.
C20_AbsentOmitted ==
  \A k \in AllCalls : \A i \in 1..Len(k.sent) :
    LET request == k.sent[i].req IN
    ~IsTokenRequest(request) =>
      /\ \A key \in AbsentKeys(k) : ~HasKey(request, key)
      /\ \A j \in 1..Len(request.url) : request.url[j] # "undefined"
      /\ \A e \in 1..Len(request.body) : request.body[e][2] # <<"undefined">>

\* a step of call c in which it receives a response / in which it begins
Receives(c) == Len(call'[c].rcvd) = Len(call[c].rcvd) + 1
Begins(c) == call'[c] # call[c] /\ call'[c].rcvd = <<>> /\ call'[c].op # ""
LastRcvd(c) == call'[c].rcvd[Len(call'[c].rcvd)]
GetOperations == {"getUserInfo", "getItems", "getItemIds"}

C11_Step ==
  /\ tokenAuth' # tokenAuth =>
       \/ nSets' = nSets + 1 /\ tokenPost' = tokenPost /\ call' = call
       \/ \E c \in DOMAIN call :
            /\ call[c].op = "getAuthToken" /\ Receives(c)
            /\ Ok(LastRcvd(c).status)
            /\ call'[c].outcome = Resolved("token", tokenAuth')
  /\ tokenPost' # tokenPost =>
       \/ nSets' = nSets + 1 /\ tokenAuth' = tokenAuth /\ call' = call
       \/ \E c \in DOMAIN call :
            /\ call[c].pc = "token" /\ Receives(c)
            /\ Ok(LastRcvd(c).status)
            /\ tokenPost' = LastRcvd(c).body
            /\ tokenAuth' = tokenAuth
  /\ \A c \in DOMAIN call :
       /\ (call'[c] # call[c] /\ call'[c].op \in GetOperations) =>
            UNCHANGED <<tokenAuth, tokenPost>>
       /\ (Receives(c) /\ Len(call'[c].rcvd) = 1 /\ Ok(LastRcvd(c).status)
           /\ call'[c].op \notin {"getAuthToken", "getPostToken"}) =>
            UNCHANGED <<tokenAuth, tokenPost>>
       /\ (call'[c] # call[c]
           /\ call'[c].outcome.kind \in {"Error", "ApiError", "TransportError", "TypeError"}) =>
            UNCHANGED <<tokenAuth, tokenPost>>
\* C11: the auth token changes only in a step of setAuthToken or of a
\* getAuthToken that resolves, the post token only in a step of setPostToken or
\* of a getPostToken (called by the application or by req) answered 2xx, and
\* that step leaves the auth token alone; no step of a GET operation, of a
\* first response that is 2xx, or in which a call fails changes either token.
C11_CredentialsFrame == [][C11_Step]_vars
C11_Witness ==
  \E k \in AllCalls :
    /\ k.op = "getUserInfo"
    /\ Len(k.rcvd) = 1 /\ k.rcvd[1].status = 401
    /\ k.sent[1].authAt = "TOKEN123" /\ k.sent[1].postAt = "P2\n"
    /\ tokenAuth = "TOKEN123" /\ tokenPost = "P2\n"

\* the first line of a body that begins with Auth=, if any
AuthLines(body) == {i \in 1..Len(split(body)) : startsWith(split(body)[i], "Auth=")}
AuthLine(body) ==
  split(body)[CHOOSE i \in AuthLines(body) : \A j \in AuthLines(body) : i <= j]

\* C12: getAuthToken answered 2xx with a body that has a line beginning with
\* Auth= resolves to the rest of that line, and holds it as the auth token.
C12_AuthLineReturned ==
  \A k \in AllCalls :
    (k.op = "getAuthToken" /\ Len(k.rcvd) = 1 /\ Ok(k.rcvd[1].status)
     /\ AuthLines(k.rcvd[1].body) # {}) =>
      /\ k.outcome = Resolved("token", Join(Tail(AuthLine(k.rcvd[1].body))))
      /\ k.rcvd[1].authAfter = Join(Tail(AuthLine(k.rcvd[1].body)))

C13_Step ==
  \A c \in DOMAIN call :
    (call[c].pc \in {"auth", "token"} /\ Receives(c) /\ Failed(LastRcvd(c).status)) =>
      /\ call'[c].pc = "done"
      /\ call'[c].outcome = ApiError(LastRcvd(c).body, LastRcvd(c).status)
      /\ Len(call'[c].sent) = Len(call[c].sent)
      /\ UNCHANGED <<tokenAuth, tokenPost>>
\* C13: the step in which getAuthToken or getPostToken receives a non-2xx
\* status ends the call with ApiError of that status and body, and leaves the
\* auth token and the post token as they were.
C13_ExchangeFailure == [][C13_Step]_vars
C13_Witness ==
  \E k \in AllCalls :
    /\ k.op = "getAuthToken"
    /\ Len(k.rcvd) = 1 /\ k.rcvd[1].status = 401
    /\ k.rcvd[1].body = <<"a", "\n", "b", "\n", "Auth=", "TOKEN123", "\n">>
    /\ k.rcvd[1].auth = "A1" /\ k.rcvd[1].authAfter = "A1" /\ Truthy(k.rcvd[1].post)
    /\ k.outcome.kind = "ApiError" /\ k.outcome.status = 401

C14_Step ==
  \A c \in DOMAIN call :
    /\ (call[c].op = "getPostToken" /\ call[c].pc = "token" /\ Receives(c)
        /\ Ok(LastRcvd(c).status)) =>
         /\ Len(call'[c].sent) = 1
         /\ call'[c].sent[1].req =
              [method |-> "GET", url |-> url \o <<"token">>,
               headers |-> [Authorization |-> GoogleLogin(call'[c].sent[1].authAt)],
               hasBody |-> FALSE, body |-> <<>>]
         /\ Truthy(call'[c].sent[1].authAt)
         /\ tokenPost' = LastRcvd(c).body
         /\ call'[c].pc = "done"
         /\ call'[c].outcome = Resolved("text", LastRcvd(c).body)
    /\ (call[c].op = "getPostToken" /\ call[c].outcome.kind = "value"
        /\ tokenPost = call[c].rcvd[1].body
        /\ Begins(c) /\ call'[c].op # "getAuthToken"
        /\ call'[c].sent # <<>> /\ call'[c].sent[1].req.method = "POST") =>
         SelectSeqOf(call'[c].sent[1].req.body, "T") = << <<"T", <<call[c].rcvd[1].body>> >> >>
\* C14: getPostToken called with an auth token held and answered 2xx has sent
\* one GET to <api>token with Authorization: GoogleLogin auth=<auth token>,
\* holds the body as it came as the post token and resolves to it; the POST
\* operation called next carries T with that body as its value.
C14_PostTokenExchange == [][C14_Step]_vars
C14_Witness ==
  /\ config.autoPostToken = "false"
  /\ nSets = 0
  /\ \E k \in AllCalls :
       /\ k.op = "renameTag" /\ Len(k.sent) = 1
       /\ k.sent[1].authAt = "TOKEN123"
       /\ SelectSeqOf(k.sent[1].req.body, "T") = << <<"T", <<"P2\n">> >> >>

\* the local check of the operation of call k fails on its arguments, with the
\* auth token tok held
PreconditionFails(k, tok) ==
  CASE k.op = "getAuthToken" -> Falsy(k.args[1]) \/ Falsy(k.args[2])
    [] k.op = "getPostToken" -> ~Truthy(tok)
    [] k.op \in {"getItems", "getItemIds"} -> k.args[1] = JsStr(EmptyString)
    [] k.op = "setAllRead" -> ~IsStreamId(k.args[1].s)
    [] k.op \in {"addItemTag", "removeItemTag"} ->
         \E i \in 1..Len(AsArray(k.args[2])) : ~IsStreamId(AsArray(k.args[2])[i])
    [] OTHER -> FALSE
C15_Step ==
  \A c \in DOMAIN call :
    (Begins(c) /\ PreconditionFails(call'[c], tokenAuth)) =>
      /\ call'[c].pc = "done"
      /\ call'[c].outcome.kind = "Error"
      /\ call'[c].sent = <<>>
      /\ UNCHANGED <<tokenAuth, tokenPost>>
\* C15: a Reader constructed without a url is the thrown error and sends
\* nothing, ever; a call of getAuthToken with an empty username or password,
\* of getPostToken with no auth token held, of getItems / getItemIds with an
\* empty stream ID, of setAllRead with a stream ID not in canonical form, or
\* of addItemTag / removeItemTag with some tag not in canonical form ends at
\* once with a local error, no request sent and both tokens as they were.
C15_LocalFailure ==
  /\ [](constructor(config).throws =>
          \A k \in AllCalls :
            /\ k.outcome = Error("url is required") /\ k.sent = <<>>
            /\ tokenAuth = NoToken /\ tokenPost = NoToken)
  /\ [][C15_Step]_vars
C15_Witness ==
  \E k \in AllCalls :
    /\ k.op = "removeItemTag"
    /\ k.args[2] = JsArr(<<ReadId, <<"read">> >>)
    /\ k.outcome.kind = "Error" /\ k.sent = <<>>
    /\ tokenAuth = "TOKEN123" /\ tokenPost = "P2\n"

\* the positions of key in the query string of u, and the chunk that follows
\* its "="
QueryKeys(u, key) == {j \in 1..Len(u) : QueryKeyAt(u, j, key)}
OneQueryValue(u, key, value) ==
  /\ Cardinality(QueryKeys(u, key)) = 1
  /\ \A j \in QueryKeys(u, key) : ~QueryValueEmpty(u, j) /\ u[j + 2] = value

\* C21: the one request of getItems / getItemIds carries n = num when num is
\* a number and n = 50 otherwise, r = o when sort is asc and r = d otherwise,
\* c with the continuation exactly when a non-empty one is given, ot / nt with
\* sMin / sMax exactly when they are numbers.
C21_ItemOptions ==
  \A k \in AllCalls : \A i \in 1..Len(k.sent) :
    k.op \in {"getItems", "getItemIds"} =>
      LET u == k.sent[i].req.url
          opts == k.args[2]
      IN /\ OneQueryValue(u, "n", IF opts.num.t = "number"
                                  THEN ToString(opts.num.n) ELSE "50")
         /\ OneQueryValue(u, "r", IF opts.sort.t = "string" /\ opts.sort.s = <<"asc">>
                                  THEN "o" ELSE "d")
         /\ IF opts.continuation.t = "string" /\ opts.continuation.s # <<>>
            THEN OneQueryValue(u, "c", opts.continuation.s[1])
            ELSE QueryKeys(u, "c") = {}
         /\ IF opts.sMin.t = "number"
            THEN OneQueryValue(u, "ot", ToString(opts.sMin.n))
            ELSE QueryKeys(u, "ot") = {}
         /\ IF opts.sMax.t = "number"
            THEN OneQueryValue(u, "nt", ToString(opts.sMax.n))
            ELSE QueryKeys(u, "nt") = {}
C21_Witness ==
  \E k \in AllCalls :
    /\ k.op = "getItems" /\ Len(k.sent) = 1
    /\ k.args[2].num = JsNum(10) /\ k.args[2].continuation = Undefined
    /\ OneQueryValue(k.sent[1].req.url, "n", "10")
    /\ QueryKeys(k.sent[1].req.url, "c") = {}
    /\ OneQueryValue(k.sent[1].req.url, "r", "d")

\* the elements a caller supplied, in the order given, and the values a body
\* carries under one key, in the order sent
Elements(v) == IF v.t = "array" THEN v.a ELSE <<v.s>>
Values(body, key) ==
  [i \in 1..Len(SelectSeqOf(body, key)) |-> SelectSeqOf(body, key)[i][2]]
FeedStream(id) == IF IsStreamId(id) THEN id ELSE <<"feed/">> \o id
\* the requests of a call that go to its own endpoint
Attempts(k) == {i \in 1..Len(k.sent) : ~IsTokenRequest(k.sent[i].req)}
BulkOps == {"removeFeed", "addFeedTag", "removeFeedTag", "addItemTag", "removeItemTag",
            "getItemsById", "renameFeed"}

\* C22: every attempt of a bulk operation repeats the key once per element
\* in the caller's order: one s per feed (removeFeed, addFeedTag,
\* removeFeedTag), one i per item ID followed by one a / r per tag
\* (addItemTag, removeItemTag), one i per item ID (getItemsById), and for
\* renameFeed the k-th s is the k-th feed and the k-th t its title; the retry
\* carries the entries of the first attempt in the same order.
C22_BulkOrder ==
  \A k \in AllCalls : \A i \in Attempts(k) :
    k.op \in BulkOps =>
      LET body == WithoutT(k.sent[i].req.body)
          first == Elements(k.args[1])
      IN /\ k.op \in {"removeFeed", "addFeedTag", "removeFeedTag"} =>
              Values(body, "s") = [j \in 1..Len(first) |-> FeedStream(first[j])]
         /\ k.op \in {"addItemTag", "removeItemTag"} =>
              body = [j \in 1..Len(first) |-> <<"i", first[j]>>]
                     \o [j \in 1..Len(Elements(k.args[2])) |->
                           <<IF k.op = "addItemTag" THEN "a" ELSE "r",
                             Elements(k.args[2])[j]>>]
         /\ k.op = "getItemsById" =>
              body = [j \in 1..Len(first) |-> <<"i", first[j]>>]
         /\ k.op = "renameFeed" =>
              LET items == IF k.args[1].t = "objects" THEN k.args[1].items
                           ELSE <<k.args[1]>>
              IN /\ Values(body, "s") =
                      [j \in 1..Len(items) |-> FeedStream(items[j].id.s)]
                 /\ Values(body, "t") =
                      [j \in 1..Len(items) |->
                         IF items[j].title.t = "undefined" THEN <<>>
                         ELSE items[j].title.s]
         /\ body = WithoutT(k.sent[1].req.body)
C22_Witness ==
  \E k \in AllCalls :
    /\ k.op = "addItemTag" /\ Len(k.sent) = 3
    /\ k.args = <<JsArr(<<Item2, Item1>>), JsArr(<<StarredId, ReadId>>)>>
    /\ WithoutT(k.sent[3].req.body) =
         << <<"i", Item2>>, <<"i", Item1>>, <<"a", StarredId>>, <<"a", ReadId>> >>

\* a call of an operation on identifiers that was given an empty list
EmptyListGiven(k) ==
  \/ k.op \in {"removeFeed", "addFeedTag", "removeFeedTag", "getItemsById"}
       /\ k.args[1] = NoElements
  \/ k.op \in {"addItemTag", "removeItemTag"}
       /\ (k.args[1] = NoElements \/ k.args[2] = NoElements)

\* C29: an operation that needs at least one identifier and is given an
\* empty list dispatches no request and fails with a local error.
C29_EmptyListRejected ==
  \A k \in AllCalls :
    EmptyListGiven(k) =>
      k.sent = <<>> /\ k.pc = "done" /\ k.outcome.kind = "Error"

\* the integer a decimal string of the response bodies denotes
Denoted(str) ==
  CASE str = <<"1", "7", "0", "0">> -> 1700
    [] str = <<"1", "7", "0", "0", "0", "0", "1">> -> 1700001
    [] str = <<"0", "4", "2">> -> 42
    [] str = <<"0">> -> 0
    [] str = <<"1", "7", "0", "1">> -> 1701
    [] str = <<"0", "9", "9">> -> 99
\* a call that has completed on a 2xx response
Succeeded(k) ==
  k.pc = "done" /\ k.rcvd # <<>> /\ Ok(k.rcvd[Len(k.rcvd)].status)
ServerList(k) == json(k.rcvd[Len(k.rcvd)].body).list

\* C25: getItems and getItemsById return the items the server sent, as many
\* and in the same order, each with crawlTimeMsec and timestampUsec replaced
\* by the integers their decimal strings denote and every other field as
\* sent; getUnreadCounts returns the server's entries likewise with
\* newestItemTimestampUsec replaced.
C25_TimestampsConverted ==
  \A k \in AllCalls :
    Succeeded(k) =>
      /\ k.op \in {"getItems", "getItemsById"} =>
           /\ k.outcome.kind = "value"
           /\ k.outcome.value[2].prop = "items"
           /\ k.outcome.value[2].list =
                [i \in 1..Len(ServerList(k)) |->
                   Item(ServerList(k)[i].id, ServerList(k)[i].title,
                        JsNum(Denoted(ServerList(k)[i].crawlTimeMsec.s)),
                        JsNum(Denoted(ServerList(k)[i].timestampUsec.s)))]
      /\ k.op = "getUnreadCounts" =>
           /\ k.outcome.kind = "value"
           /\ k.outcome.value[2] =
                [i \in 1..Len(ServerList(k)) |->
                   UnreadCount(ServerList(k)[i].id, ServerList(k)[i].count,
                        JsNum(Denoted(ServerList(k)[i].newestItemTimestampUsec.s)))]
C25_Witness ==
  \E k \in AllCalls :
    /\ k.op = "getItemsById" /\ Succeeded(k) /\ Len(k.rcvd) = 3
    /\ k.rcvd[3].body = "ITEMS"
    /\ Len(k.outcome.value[2].list) = 2
    /\ k.outcome.value[2].list[2].crawlTimeMsec = JsNum(42)
    /\ k.outcome.value[2].list[1].timestampUsec = JsNum(1700001)

\* the query string of u carries key with the given value, form-encoded
QueryHas(u, key, value) ==
  LET encoded == [i \in 1..Len(value) |-> formChunk(value[i])] IN
  \E j \in QueryKeys(u, key) :
    /\ j + 1 + Len(value) <= Len(u)
    /\ SubSeq(u, j + 2, j + 1 + Len(value)) = encoded
    /\ (j + 2 + Len(value) > Len(u) \/ u[j + 2 + Len(value)] = "&")
Configured == IF config.client \in {Omitted, ""} THEN "libseymour" ELSE config.client

\* C23: every GET of the request engine has in its URL each parameter the
\* operation gave a defined value, ck with the time of the call, output=json
\* and client with the configured identifier (libseymour when none was
\* configured); it has no body and carries no T, in the URL or elsewhere,
\* whether or not a post token is held.
C23_GetRequests ==
  \A k \in AllCalls : \A i \in 1..Len(k.sent) :
    LET request == k.sent[i].req IN
    request.method = "GET" /\ ~IsTokenRequest(request) =>
      /\ \A e \in 1..Len(k.d.params.entries) :
           LET entry == k.d.params.entries[e] IN
           entry[2].t # "undefined" =>
             QueryHas(request.url, entry[1],
                      IF entry[2].t = "number" THEN <<ToString(entry[2].n)>>
                      ELSE entry[2].s)
      /\ QueryHas(request.url, "ck", <<ToString(k.sent[i].nowAt)>>)
      /\ QueryHas(request.url, "output", <<"json">>)
      /\ QueryHas(request.url, "client", <<Configured>>)
      /\ ~request.hasBody /\ request.body = <<>>
      /\ QueryKeys(request.url, "T") = {}
C23_Witness ==
  \E k \in AllCalls :
    /\ k.op = "getItemIds" /\ Len(k.sent) = 1
    /\ k.sent[1].postAt = "P1" /\ k.sent[1].nowAt = 1701
    /\ k.args[2].num = JsNum(10)
    /\ QueryHas(k.sent[1].req.url, "n", <<"10">>)
    /\ QueryHas(k.sent[1].req.url, "s", FeedId)
    /\ QueryHas(k.sent[1].req.url, "ck", <<"1701">>)
    /\ QueryHas(k.sent[1].req.url, "client", <<"my app">>)

\* C24: when a fetch fails without a response - on the first attempt, during
\* the token refresh or during the retry - the call completes at once with
\* that failure, dispatches nothing further, and both tokens stay as they
\* were.
C24_Step ==
  \A c \in DOMAIN call :
    Receives(c) /\ LastRcvd(c).status = NetworkFailure =>
      /\ call'[c].pc = "done"
      /\ call'[c].outcome = TransportError
      /\ call'[c].sent = call[c].sent
      /\ tokenAuth' = tokenAuth /\ tokenPost' = tokenPost
C24_TransportFailure == [][C24_Step]_vars
C24_Witness ==
  \E k \in AllCalls :
    /\ k.pc = "done" /\ Len(k.rcvd) = 3 /\ Len(k.sent) = 3
    /\ k.rcvd[3].status = NetworkFailure
    /\ k.rcvd[3].postAfter = k.rcvd[2].postAfter
    /\ k.outcome = TransportError

\* C28: with autoPostToken set and no auth token held, a first-attempt POST
\* answered 400 or 401 ends the call there: nothing is sent to the token
\* endpoint, nothing is retried, the call fails with getPostToken's own
\* "no auth token" error and not with an ApiError, and the tokens are left
\* as they were (unset when they were unset).
C28_Step ==
  \A c \in DOMAIN call :
    /\ Receives(c) /\ Len(call'[c].rcvd) = 1
    /\ call[c].sent[1].req.method = "POST"
    /\ LastRcvd(c).status \in {400, 401}
    /\ autoPostToken /\ tokenAuth = NoToken
    => /\ call'[c].pc = "done"
       /\ call'[c].sent = call[c].sent
       /\ call'[c].outcome = Error("no auth token")
       /\ call'[c].outcome.kind # "ApiError"
       /\ tokenAuth' = NoToken /\ tokenPost' = tokenPost
C28_NoAuthNoRefresh == [][C28_Step]_vars
C28_Witness ==
  \E k \in AllCalls :
    /\ k.pc = "done" /\ Len(k.sent) = 1 /\ Len(k.rcvd) = 1
    /\ k.sent[1].req.method = "POST" /\ k.rcvd[1].status = 401
    /\ k.rcvd[1].auth = NoToken /\ autoPostToken
    /\ k.outcome = Error("no auth token")
    /\ tokenAuth = NoToken /\ tokenPost = NoToken

\* the network round trips of a call: requests dispatched and answered
RoundTrips(k) == Len(k.rcvd)
Settled(k) == k.outcome.kind \in {"value", "ApiError", "Error", "TransportError", "TypeError"}

\* C26: a call never dispatches more than three requests, a completed call
\* has an answer for each request it dispatched and has settled to a value or
\* an error, nothing is dispatched for a call once it has completed, and,
\* every request being answered, every call that was started completes.
C26_Bounded ==
  \A k \in AllCalls :
    /\ Len(k.sent) <= 3
    /\ k.pc = "done" => RoundTrips(k) = Len(k.sent) /\ RoundTrips(k) <= 3 /\ Settled(k)
    /\ k.pc # "done" => k.outcome = Pending
C26_Final == \A c \in DOMAIN call : call[c].pc = "done" => call'[c] = call[c]
C26_Terminates ==
  /\ []C26_Bounded
  /\ [][C26_Final]_vars
  /\ \A c \in Calls : (call[c].pc # "idle") ~> (call[c].pc = "done")
C26_Witness ==
  \E k \in AllCalls :
    /\ k.pc = "done" /\ RoundTrips(k) = 3 /\ Len(k.sent) = 3
    /\ k.outcome.kind = "value"

\* the protocol as seen from outside: which endpoint each request went to,
\* the statuses answered, and what the caller was told
KindsReq(k) ==
  [i \in 1..Len(k.sent) |-> IF IsTokenRequest(k.sent[i].req) THEN "refresh" ELSE "target"]
KindsLegacy ==
  [i \in 1..Len(xhr.sent) |->
     IF xhr.sent[i].method = "GET" /\ xhr.sent[i].url[2] = TOKEN_SUFFIX
     THEN "refresh" ELSE "target"]
StatusesOf(k) == [i \in 1..Len(k.rcvd) |-> k.rcvd[i].status]
Told(k) ==
  IF k.outcome.kind = "pending" THEN "none"
  ELSE IF k.outcome.kind = "value" THEN "onSuccess" ELSE "onFailure"

\* C27: for the same method and the same server responses makeRequest and
\* req have dispatched the same sequence of requests, and when req has
\* settled makeRequest has called the corresponding callback: onSuccess for a
\* resolved value, onFailure for every rejection.
C27_SameProtocol ==
  \A k \in AllCalls :
    /\ k.pc \in {"fetch", "token", "done"} /\ xhr.pc # "idle"
    /\ k.sent[1].req.method = xhr.obj.method
    /\ StatusesOf(k) = xhr.rcvd
    => /\ KindsReq(k) = KindsLegacy
       /\ k.pc = "done" => xhr.pc = "done" /\ xhr.called = Told(k)

\* the texts that read as true, and the categories that are the read or the
\* starred state once a user segment (user/, digits if any, /) is user/-/
TrueTexts == {<<"true">>, <<"TRUE">>, <<"True">>, <<"TR", "ue">>}
ReadStates ==
  { <<"user/", "123", "/", "state/com.google/", "read">>,
    <<"user/-/state/com.google/", "read">>,
    <<"user/", "/", "state/com.google/", "read">> }
StarredStates ==
  { <<"user/", "7", "/", "state/com.google/", "starred">>,
    <<"user/-/state/com.google/", "starred">> }
Says(flag, list, states) ==
  IF flag.t # "undefined" THEN flag.s \in TrueTexts
  ELSE \E i \in 1..Len(list) : list[i] \in states

====
